---- MODULE Spec2Model ----
(***************************************************************************)
(* Model of the game session of sa-memory-game: the reducer of             *)
(* app/hooks/useGameState.ts (gameReducer), the board generator it calls   *)
(* (the hook-local createGameBoard) and the hook's auto-match effect that  *)
(* schedules the delayed evaluation of two flipped cards with setTimeout.  *)
(*                                                                         *)
(* Sequences are 1-based here and 0-based in the source: the card at       *)
(* source index k is board[k + 1] and carries id k.                        *)
(***************************************************************************)
EXTENDS Integers, Sequences, FiniteSets, TLC

(***************************************************************************)
(* Bounds.  The source's DIFFICULTY_CONFIGS has 8, 12, 18 and 24 pairs;    *)
(* the reducer treats every difficulty alike, so the model keeps two       *)
(* difficulties and scales their pair counts down: "easy" is the smallest  *)
(* board there is (one pair), "medium" the smallest on which two selected  *)
(* cards can differ.                                                       *)
(***************************************************************************)
EasyPairs == 1
MediumPairs == 2
\* Largest moves value at which the player still flips cards.
MaxMoves == 2
\* Largest timeElapsed value reported through updateTime.
MaxTime == 1
\* Number of distinct values Math.random() takes: k / RandomLevels for
\* k in 0..RandomLevels-1.
RandomLevels == 1

Difficulty == {"easy", "medium"}

DIFFICULTY_CONFIGS ==
  [d \in Difficulty |-> [pairs |-> IF d = "easy" THEN EasyPairs ELSE MediumPairs]]

MaxPairs == IF EasyPairs > MediumPairs THEN EasyPairs ELSE MediumPairs

\* A category is represented by its emoji list; emojis are numbered.
EmojiList(n) == [i \in 1..n |-> i]

\* The categories handed to startGame.  Every shipped category has 32
\* emojis, enough for the largest difficulty.
Categories == {EmojiList(MaxPairs)}

\* Card ids a caller may pass to flipCard: every board position and one id
\* that no board has.
CardIds == 0..(2 * MaxPairs)

Max(a, b) == IF a > b THEN a ELSE b
Min(a, b) == IF a < b THEN a ELSE b

(***************************************************************************)
(* Board generation                                                        *)
(***************************************************************************)

\* Math.floor(Math.random() * (i + 1)) for the random value k / RandomLevels
RandomIndex(k, i) == (k * (i + 1)) \div RandomLevels

\* The outcomes of the random source for one shuffle of n elements: one
\* index j in 0..i for every loop index i in 1..n-1.
RandomDraws(n) ==
  {[i \in 1..(n - 1) |-> RandomIndex(k[i], i)] : k \in [1..(n - 1) -> 0..(RandomLevels - 1)]}

\* Swap of the elements at the 0-based indexes i and j.
Swap(s, i, j) ==
  [p \in 1..Len(s) |-> IF p = i + 1 THEN s[j + 1] ELSE IF p = j + 1 THEN s[i + 1] ELSE s[p]]

RECURSIVE ShuffleFrom(_, _, _)
\* The Fisher-Yates loop: for (i = length - 1; i > 0; i--) swap(i, j)
ShuffleFrom(s, i, js) ==
  IF i <= 0 THEN s ELSE ShuffleFrom(Swap(s, i, js[i]), i - 1, js)

\* The two cards pushed for the emoji at 0-based index `index`.
\* Card k (0-based) of the unshuffled list belongs to pair k div 2.
UnshuffledCards(selectedEmojis) ==
  [p \in 1..(2 * Len(selectedEmojis)) |->
     [id |-> p - 1,
      emoji |-> selectedEmojis[((p - 1) \div 2) + 1],
      isFlipped |-> FALSE,
      isMatched |-> FALSE,
      pairId |-> (p - 1) \div 2]]

\* category.emojis.slice(0, pairs)
SliceEmojis(emojis, pairs) == SubSeq(emojis, 1, Min(pairs, Len(emojis)))

\* createGameBoard of useGameState.ts; js are the shuffle's random indexes.
createGameBoard(difficulty, category, js) ==
  LET pairs == DIFFICULTY_CONFIGS[difficulty].pairs
      cards == UnshuffledCards(SliceEmojis(category, pairs))
      shuffledCards == ShuffleFrom(cards, Len(cards) - 1, js)
  IN  [p \in 1..Len(shuffledCards) |-> [shuffledCards[p] EXCEPT !.id = p - 1]]

\* Number of cards createGameBoard produces
BoardSize(difficulty, category) ==
  2 * Min(DIFFICULTY_CONFIGS[difficulty].pairs, Len(category))

(***************************************************************************)
(* The reducer                                                             *)
(***************************************************************************)

initialGameState ==
  [board |-> <<>>,
   flippedCards |-> <<>>,
   matchedPairs |-> <<>>,
   moves |-> 0,
   timeElapsed |-> 0,
   gameStatus |-> "setup",
   difficulty |-> "easy",
   category |-> EmojiList(DIFFICULTY_CONFIGS["easy"].pairs),
   score |-> 0]

\* state.board.find(c => c.id === cardId): the set holding the card, or {}
FindCard(board, cardId) == {board[p] : p \in {q \in 1..Len(board) : board[q].id = cardId}}

HasCard(board, cardId) == FindCard(board, cardId) # {}

\* The card found; used only where HasCard holds.
CardOf(board, cardId) == CHOOSE c \in FindCard(board, cardId) : TRUE

\* Variant: the score of the previous session is carried over.
START_GAME_KeepsScore(s, difficulty, category, board) ==
  [s EXCEPT !.board = board,
            !.flippedCards = <<>>,
            !.matchedPairs = <<>>,
            !.moves = 0,
            !.timeElapsed = 0,
            !.gameStatus = "playing",
            !.difficulty = difficulty,
            !.category = category]

START_GAME(s, difficulty, category, board) ==
  [s EXCEPT !.board = board,
            !.flippedCards = <<>>,
            !.matchedPairs = <<>>,
            !.moves = 0,
            !.timeElapsed = 0,
            !.gameStatus = "playing",
            !.difficulty = difficulty,
            !.category = category,
            !.score = 0]

\* The state an accepted flip returns: the card turned face up and its id
\* appended to flippedCards.
FlipAccepted(s, cardId) ==
  [s EXCEPT !.board = [p \in 1..Len(s.board) |->
                         IF s.board[p].id = cardId
                         THEN [s.board[p] EXCEPT !.isFlipped = TRUE]
                         ELSE s.board[p]],
            !.flippedCards = Append(s.flippedCards, cardId)]

\* Variant: the check on the number of flipped cards is missing.
FLIP_CARD_NoLimit(s, cardId) ==
  IF s.gameStatus # "playing" THEN s
  ELSE IF ~HasCard(s.board, cardId) THEN s
  ELSE IF CardOf(s.board, cardId).isFlipped \/ CardOf(s.board, cardId).isMatched THEN s
  ELSE FlipAccepted(s, cardId)

\* Variant: an accepted flip counts as a move.
FLIP_CARD_CountsMove(s, cardId) ==
  IF s.gameStatus # "playing" THEN s
  ELSE IF ~HasCard(s.board, cardId) THEN s
  ELSE IF CardOf(s.board, cardId).isFlipped \/ CardOf(s.board, cardId).isMatched THEN s
  ELSE IF Len(s.flippedCards) >= 2 THEN s
  ELSE [FlipAccepted(s, cardId) EXCEPT !.moves = s.moves + 1]

\* Variant: the check that the card is face down and unmatched is missing.
FLIP_CARD_NoCardCheck(s, cardId) ==
  IF s.gameStatus # "playing" THEN s
  ELSE IF ~HasCard(s.board, cardId) THEN s
  ELSE IF Len(s.flippedCards) >= 2 THEN s
  ELSE FlipAccepted(s, cardId)

\* Variant: the check of gameStatus is missing.
FLIP_CARD_AnyStatus(s, cardId) ==
  IF ~HasCard(s.board, cardId) THEN s
  ELSE IF CardOf(s.board, cardId).isFlipped \/ CardOf(s.board, cardId).isMatched THEN s
  ELSE IF Len(s.flippedCards) >= 2 THEN s
  ELSE FlipAccepted(s, cardId)

FLIP_CARD(s, cardId) ==
  IF s.gameStatus # "playing" THEN s
  ELSE IF ~HasCard(s.board, cardId) THEN s
  ELSE IF CardOf(s.board, cardId).isFlipped \/ CardOf(s.board, cardId).isMatched THEN s
  ELSE IF Len(s.flippedCards) >= 2 THEN s
  ELSE FlipAccepted(s, cardId)

\* Variant: completion is decided on the pair count before this match.
MATCH_CARDS_StaleCount(s, cardIds) ==
  IF Len(cardIds) # 2 THEN s
  ELSE
    LET newMoves == s.moves + 1
        matched == [p \in 1..Len(s.board) |->
                      IF s.board[p].id = cardIds[1] \/ s.board[p].id = cardIds[2]
                      THEN [s.board[p] EXCEPT !.isMatched = TRUE, !.isFlipped = TRUE]
                      ELSE s.board[p]]
    IN  [s EXCEPT !.board = matched,
                  !.flippedCards = <<>>,
                  !.matchedPairs = IF HasCard(s.board, cardIds[1])
                                   THEN Append(s.matchedPairs, CardOf(s.board, cardIds[1]).pairId)
                                   ELSE s.matchedPairs,
                  !.moves = newMoves,
                  !.score = s.score + 100 + Max(0, 1000 - s.timeElapsed)
                              + Max(0, 1000 - newMoves * 10),
                  !.gameStatus = IF Len(s.matchedPairs) = DIFFICULTY_CONFIGS[s.difficulty].pairs
                                 THEN "completed" ELSE "playing"]

\* Variant: a match is not counted as a move.
MATCH_CARDS_FreeMove(s, cardIds) ==
  IF Len(cardIds) # 2 THEN s
  ELSE
    LET newBoard == [p \in 1..Len(s.board) |->
                       IF s.board[p].id = cardIds[1] \/ s.board[p].id = cardIds[2]
                       THEN [s.board[p] EXCEPT !.isMatched = TRUE, !.isFlipped = TRUE]
                       ELSE s.board[p]]
        newMatchedPairs == IF HasCard(s.board, cardIds[1])
                           THEN Append(s.matchedPairs, CardOf(s.board, cardIds[1]).pairId)
                           ELSE s.matchedPairs
    IN  [s EXCEPT !.board = newBoard,
                  !.flippedCards = <<>>,
                  !.matchedPairs = newMatchedPairs,
                  !.score = s.score + 100 + Max(0, 1000 - s.timeElapsed)
                              + Max(0, 1000 - s.moves * 10),
                  !.gameStatus = IF Len(newMatchedPairs) = DIFFICULTY_CONFIGS[s.difficulty].pairs
                                 THEN "completed" ELSE "playing"]

\* Variant: the matched cards are turned face down again.
MATCH_CARDS_TurnsDown(s, cardIds) ==
  IF Len(cardIds) # 2 THEN s
  ELSE
    LET newMoves == s.moves + 1
        newBoard == [p \in 1..Len(s.board) |->
                       IF s.board[p].id = cardIds[1] \/ s.board[p].id = cardIds[2]
                       THEN [s.board[p] EXCEPT !.isMatched = TRUE, !.isFlipped = FALSE]
                       ELSE s.board[p]]
        newMatchedPairs == IF HasCard(s.board, cardIds[1])
                           THEN Append(s.matchedPairs, CardOf(s.board, cardIds[1]).pairId)
                           ELSE s.matchedPairs
    IN  [s EXCEPT !.board = newBoard,
                  !.flippedCards = <<>>,
                  !.matchedPairs = newMatchedPairs,
                  !.moves = newMoves,
                  !.score = s.score + 100 + Max(0, 1000 - s.timeElapsed)
                              + Max(0, 1000 - newMoves * 10),
                  !.gameStatus = IF Len(newMatchedPairs) = DIFFICULTY_CONFIGS[s.difficulty].pairs
                                 THEN "completed" ELSE "playing"]

MATCH_CARDS(s, cardIds) ==
  IF Len(cardIds) # 2 THEN s
  ELSE
    LET firstCardId == cardIds[1]
        secondCardId == cardIds[2]
        newBoard == [p \in 1..Len(s.board) |->
                       IF s.board[p].id = firstCardId \/ s.board[p].id = secondCardId
                       THEN [s.board[p] EXCEPT !.isMatched = TRUE, !.isFlipped = TRUE]
                       ELSE s.board[p]]
        newMatchedPairs == IF HasCard(s.board, firstCardId)
                           THEN Append(s.matchedPairs, CardOf(s.board, firstCardId).pairId)
                           ELSE s.matchedPairs
        newMoves == s.moves + 1
        timeBonus == Max(0, 1000 - s.timeElapsed)
        moveBonus == Max(0, 1000 - newMoves * 10)
        newScore == s.score + 100 + timeBonus + moveBonus
        totalPairs == DIFFICULTY_CONFIGS[s.difficulty].pairs
        gameCompleted == Len(newMatchedPairs) = totalPairs
    IN  [s EXCEPT !.board = newBoard,
                  !.flippedCards = <<>>,
                  !.matchedPairs = newMatchedPairs,
                  !.moves = newMoves,
                  !.score = newScore,
                  !.gameStatus = IF gameCompleted THEN "completed" ELSE "playing"]

\* Variant: the evaluation puts the game back to 'playing', as a match does.
UNMATCH_CARDS_ResumesGame(s, cardIds) ==
  IF Len(cardIds) # 2 THEN s
  ELSE [s EXCEPT !.board = [p \in 1..Len(s.board) |->
                              IF s.board[p].id = cardIds[1] \/ s.board[p].id = cardIds[2]
                              THEN [s.board[p] EXCEPT !.isFlipped = FALSE]
                              ELSE s.board[p]],
                 !.flippedCards = <<>>,
                 !.moves = s.moves + 1,
                 !.gameStatus = "playing"]

UNMATCH_CARDS(s, cardIds) ==
  IF Len(cardIds) # 2 THEN s
  ELSE
    LET firstCardId == cardIds[1]
        secondCardId == cardIds[2]
    IN  [s EXCEPT !.board = [p \in 1..Len(s.board) |->
                               IF s.board[p].id = firstCardId \/ s.board[p].id = secondCardId
                               THEN [s.board[p] EXCEPT !.isFlipped = FALSE]
                               ELSE s.board[p]],
                  !.flippedCards = <<>>,
                  !.moves = s.moves + 1]

PAUSE_GAME(s) == [s EXCEPT !.gameStatus = "paused"]

RESUME_GAME(s) == [s EXCEPT !.gameStatus = "playing"]

UPDATE_TIME(s, timeElapsed) == [s EXCEPT !.timeElapsed = timeElapsed]

RESET_GAME(s) ==
  [initialGameState EXCEPT !.difficulty = s.difficulty, !.category = s.category]

(***************************************************************************)
(* Board generation of gameLogic.ts                                        *)
(***************************************************************************)

\* Variant: j is drawn from the whole array at every loop index.
ShuffleDraws_AnyIndex(n) == [1..(n - 1) -> 0..(n - 1)]

\* The outcomes of Math.floor(Math.random() * (i + 1)) over one shuffle of
\* n elements: any index j in 0..i for every loop index i in 1..n-1.
ShuffleDraws(n) ==
  {js \in [1..(n - 1) -> 0..(n - 1)] : \A i \in 1..(n - 1) : js[i] <= i}

\* Variant: the loop runs on the input array itself, not on a copy.
fisherYatesShuffle_InPlace(array, js) ==
  LET shuffled == ShuffleFrom(array, Len(array) - 1, js)
  IN  [returned |-> shuffled, array |-> shuffled, isNewArray |-> FALSE]

\* fisherYatesShuffle: the loop runs on the copy [...array].  The result
\* records the array returned, the input array as the call leaves it, and
\* that the array returned is a new object.
fisherYatesShuffle(array, js) ==
  LET shuffled == ShuffleFrom(array, Len(array) - 1, js)
  IN  [returned |-> shuffled, array |-> array, isNewArray |-> TRUE]

validateCategoryForDifficulty(category, requiredPairs) == Len(category) >= requiredPairs

\* A thrown Error is the result [ok |-> FALSE].
getRandomEmojis(category, count, js) ==
  IF count > Len(category)
  THEN [ok |-> FALSE, error |-> "Not enough emojis in category"]
  ELSE [ok |-> TRUE,
        value |-> SubSeq(ShuffleFrom(category, Len(category) - 1, js), 1, count)]

generateEmojiPairs(category, pairCount, js) ==
  IF ~validateCategoryForDifficulty(category, pairCount)
  THEN [ok |-> FALSE, error |-> "Category doesn't have enough emojis"]
  ELSE getRandomEmojis(category, pairCount, js)

\* Variant: the ids of the cards are left in creation order.
gameLogic_createGameBoard_KeepsIds(difficulty, category, emojiJs, cardJs) ==
  LET pairs == DIFFICULTY_CONFIGS[difficulty].pairs
      selectedEmojis == generateEmojiPairs(category, pairs, emojiJs)
  IN  IF ~selectedEmojis.ok THEN selectedEmojis
      ELSE [ok |-> TRUE,
            value |-> fisherYatesShuffle(UnshuffledCards(selectedEmojis.value),
                                         cardJs).returned]

\* createGameBoard of gameLogic.ts; emojiJs and cardJs are the random
\* indexes of the emoji shuffle and of the card shuffle.
gameLogic_createGameBoard(difficulty, category, emojiJs, cardJs) ==
  LET pairs == DIFFICULTY_CONFIGS[difficulty].pairs
      selectedEmojis == generateEmojiPairs(category, pairs, emojiJs)
  IN  IF ~selectedEmojis.ok THEN selectedEmojis
      ELSE LET shuffledCards ==
                 fisherYatesShuffle(UnshuffledCards(selectedEmojis.value), cardJs).returned
           IN  [ok |-> TRUE,
                value |-> [p \in 1..Len(shuffledCards) |->
                             [shuffledCards[p] EXCEPT !.id = p - 1]]]

\* pairCounts of validateGameBoard: the number of cards of each pairId
PairCounts(board) ==
  [pairId \in {board[p].pairId : p \in 1..Len(board)} |->
     Cardinality({p \in 1..Len(board) : board[p].pairId = pairId})]

validateGameBoard(board, difficulty) ==
  LET pairs == DIFFICULTY_CONFIGS[difficulty].pairs
      pairCounts == PairCounts(board)
  IN  IF Len(board) # pairs * 2 THEN FALSE
      ELSE IF \E pairId \in DOMAIN pairCounts : pairCounts[pairId] # 2 THEN FALSE
      ELSE IF Cardinality(DOMAIN pairCounts) # pairs THEN FALSE
      ELSE TRUE

(***************************************************************************)
(* The timer hook, useTimer.ts                                             *)
(***************************************************************************)

\* The period of the tick interval and the milliseconds of one second
MS_PER_SECOND == 1000

initialTimerState == [timeElapsed |-> 0, isRunning |-> FALSE, isPaused |-> FALSE]

\* null, for intervalRef
NULL == 0

\* The hook's state and refs, and `intervals`, the callbacks setInterval
\* has scheduled: the id of each and the instant its next tick is due.
initialTimer ==
  [timerState |-> initialTimerState,
   intervalRef |-> NULL,
   startTimeRef |-> 0,
   pausedTimeRef |-> 0,
   intervals |-> {}]

\* The id setInterval returns: one that no scheduled interval has.
NewIntervalId(intervals) ==
  CHOOSE id \in 1..(Cardinality(intervals) + 1) : \A iv \in intervals : iv.id # id

clearInterval(intervals, id) == {iv \in intervals : iv.id # id}

\* Variant: a resumed timer counts from the instant of the resume.
useTimer_start_ForgetsPaused(t, seen, nowMs) ==
  IF seen.isRunning /\ ~seen.isPaused THEN t
  ELSE LET id == NewIntervalId(t.intervals)
           begun ==
             IF seen.isPaused
             THEN [t EXCEPT !.startTimeRef = nowMs,
                            !.timerState.isRunning = TRUE,
                            !.timerState.isPaused = FALSE]
             ELSE [t EXCEPT !.startTimeRef = nowMs,
                            !.timerState = [timeElapsed |-> 0,
                                            isRunning |-> TRUE,
                                            isPaused |-> FALSE]]
       IN  [begun EXCEPT !.intervalRef = id,
                         !.intervals = t.intervals \cup
                                         {[id |-> id, due |-> nowMs + MS_PER_SECOND]}]

\* start(), called at the instant nowMs.  `seen` is the timerState of the
\* render that created the callback (its useCallback closure); the refs
\* and the functional state updates work on the current timer t.
useTimer_start(t, seen, nowMs) ==
  IF seen.isRunning /\ ~seen.isPaused THEN t
  ELSE LET id == NewIntervalId(t.intervals)
           begun ==
             IF seen.isPaused
             THEN [t EXCEPT !.startTimeRef = nowMs - t.pausedTimeRef,
                            !.timerState.isRunning = TRUE,
                            !.timerState.isPaused = FALSE]
             ELSE [t EXCEPT !.startTimeRef = nowMs,
                            !.timerState = [timeElapsed |-> 0,
                                            isRunning |-> TRUE,
                                            isPaused |-> FALSE]]
       IN  [begun EXCEPT !.intervalRef = id,
                         !.intervals = t.intervals \cup
                                         {[id |-> id, due |-> nowMs + MS_PER_SECOND]}]

\* Variant: pause() has no guard.
useTimer_pause_Unguarded(t, seen) ==
  [t EXCEPT !.intervals = IF t.intervalRef # NULL
                          THEN clearInterval(t.intervals, t.intervalRef)
                          ELSE t.intervals,
            !.intervalRef = NULL,
            !.pausedTimeRef = seen.timeElapsed * MS_PER_SECOND,
            !.timerState.isRunning = FALSE,
            !.timerState.isPaused = TRUE]

useTimer_pause(t, seen) ==
  IF ~seen.isRunning \/ seen.isPaused THEN t
  ELSE [t EXCEPT !.intervals = IF t.intervalRef # NULL
                               THEN clearInterval(t.intervals, t.intervalRef)
                               ELSE t.intervals,
                 !.intervalRef = NULL,
                 !.pausedTimeRef = seen.timeElapsed * MS_PER_SECOND,
                 !.timerState.isRunning = FALSE,
                 !.timerState.isPaused = TRUE]

useTimer_resume(t, seen, nowMs) ==
  IF ~seen.isPaused THEN t ELSE useTimer_start(t, seen, nowMs)

\* Variant: stop() keeps the seconds counted so far.
useTimer_stop_KeepsElapsed(t) ==
  [t EXCEPT !.intervals = IF t.intervalRef # NULL
                          THEN clearInterval(t.intervals, t.intervalRef)
                          ELSE t.intervals,
            !.intervalRef = NULL,
            !.timerState.isRunning = FALSE,
            !.timerState.isPaused = FALSE,
            !.startTimeRef = 0,
            !.pausedTimeRef = 0]

\* Variant: stop() leaves the interval scheduled.
useTimer_stop_KeepsInterval(t) ==
  [t EXCEPT !.intervalRef = NULL,
            !.timerState = initialTimerState,
            !.startTimeRef = 0,
            !.pausedTimeRef = 0]

useTimer_stop(t) ==
  [t EXCEPT !.intervals = IF t.intervalRef # NULL
                          THEN clearInterval(t.intervals, t.intervalRef)
                          ELSE t.intervals,
            !.intervalRef = NULL,
            !.timerState = initialTimerState,
            !.startTimeRef = 0,
            !.pausedTimeRef = 0]

useTimer_reset(t) == useTimer_stop(t)

\* Variant: the cleanup on unmount clears nothing.
useTimer_cleanup_ClearsNothing(t) == t

\* The cleanup of the unmount effect: clearInterval(intervalRef.current)
useTimer_cleanup(t) ==
  IF t.intervalRef # NULL
  THEN [t EXCEPT !.intervals = clearInterval(t.intervals, t.intervalRef)]
  ELSE t

useTimer_toggle(t, seen, nowMs) ==
  IF seen.isRunning /\ ~seen.isPaused
  THEN useTimer_pause(t, seen)
  ELSE useTimer_start(t, seen, nowMs)

\* The interval callback of the interval iv, run at the instant nowMs; the
\* interval's next tick is due one period after the one that ran.
IntervalCallback(t, iv, nowMs) ==
  [t EXCEPT !.timerState.timeElapsed = (nowMs - t.startTimeRef) \div MS_PER_SECOND,
            !.intervals = (t.intervals \ {iv}) \cup
                            {[iv EXCEPT !.due = iv.due + MS_PER_SECOND]}]

(***************************************************************************)
(* The hook: state, the pending evaluation timeout, and the calls made     *)
(***************************************************************************)
VARIABLES
  state,            \* the reducer state (GameState)
  timer,            \* the timeout the auto-match effect has pending, or NoTimer
  lastAction,       \* the type of the action dispatched last
  evaluations,      \* evaluations completed since the last startGame / resetGame
  reachedCompleted, \* the session reached 'completed' since the last startGame / resetGame
  timeoutCleared,   \* the last dispatch's effect cleanup cleared a pending timeout
  call,             \* the application of a function of gameLogic.ts under study
  tm,               \* the timer hook: its state, its refs and the intervals scheduled
  now,              \* Date.now(), in milliseconds
  lastCall,         \* the timer operation that ran last
  runningMs,        \* milliseconds the timer spent running since it was started
  pausedMs,         \* milliseconds the timer spent paused since it was started
  pausesAligned,    \* every pause so far fell on a whole second of running time
  mounted           \* the component that uses the timer hook is mounted

sessionVars == <<state, timer, lastAction, evaluations, reachedCompleted, timeoutCleared>>

timerVars == <<tm, now, lastCall, runningMs, pausedMs, pausesAligned, mounted>>

vars == <<state, timer, lastAction, evaluations, reachedCompleted, timeoutCleared,
          call, tm, now, lastCall, runningMs, pausedMs, pausesAligned, mounted>>

NoTimer == [pending |-> FALSE]

NoCall == [fn |-> "none"]

\* The session and the timer before anything ran.
SessionInit ==
  /\ state = initialGameState
  /\ timer = NoTimer
  /\ lastAction = "INIT"
  /\ evaluations = 0
  /\ reachedCompleted = FALSE
  /\ timeoutCleared = FALSE

TimerInit ==
  /\ tm = initialTimer
  /\ now = 0
  /\ lastCall = "init"
  /\ runningMs = 0
  /\ pausedMs = 0
  /\ pausesAligned = TRUE
  /\ mounted = TRUE

MATCH_DELAY == 500
UNMATCH_DELAY == 1500

\* Variant: no timeout is scheduled for two cards that do not match.
ScheduleEvaluation_MatchOnly(s) ==
  IF Len(s.flippedCards) = 2
     /\ HasCard(s.board, s.flippedCards[1])
     /\ HasCard(s.board, s.flippedCards[2])
     /\ CardOf(s.board, s.flippedCards[1]).pairId = CardOf(s.board, s.flippedCards[2]).pairId
  THEN [pending |-> TRUE,
        cardIds |-> s.flippedCards,
        isMatch |-> TRUE,
        delay |-> MATCH_DELAY]
  ELSE NoTimer

\* Variant: a mismatch is evaluated after the delay of a match.
ScheduleEvaluation_SameDelay(s) ==
  IF Len(s.flippedCards) = 2
     /\ HasCard(s.board, s.flippedCards[1])
     /\ HasCard(s.board, s.flippedCards[2])
  THEN [pending |-> TRUE,
        cardIds |-> s.flippedCards,
        isMatch |-> CardOf(s.board, s.flippedCards[1]).pairId
                      = CardOf(s.board, s.flippedCards[2]).pairId,
        delay |-> MATCH_DELAY]
  ELSE NoTimer

\* The body of the auto-match effect, run for the state `s`: the timeout it
\* schedules, or NoTimer when it schedules none.
ScheduleEvaluation(s) ==
  IF Len(s.flippedCards) = 2
     /\ HasCard(s.board, s.flippedCards[1])
     /\ HasCard(s.board, s.flippedCards[2])
  THEN LET isMatch == CardOf(s.board, s.flippedCards[1]).pairId
                        = CardOf(s.board, s.flippedCards[2]).pairId
       IN  [pending |-> TRUE,
            cardIds |-> s.flippedCards,
            isMatch |-> isMatch,
            delay |-> IF isMatch THEN MATCH_DELAY ELSE UNMATCH_DELAY]
  ELSE NoTimer

\* Variant: the effect depends on the whole state.
DependenciesChanged_WholeState(prev, next) == next # prev

\* The dependencies of the auto-match effect that a dispatch can change,
\* state.flippedCards and state.board, differ between two renders
\* (handleCardMatch and handleCardUnmatch are useCallback(..., []) and never
\* change).
DependenciesChanged(prev, next) ==
  next.flippedCards # prev.flippedCards \/ next.board # prev.board

\* Variant: the effect has no cleanup, a timeout once scheduled is never
\* cleared.
AutoMatchEffect_NoCleanup(prev, next, t) ==
  IF next.flippedCards = prev.flippedCards /\ next.board = prev.board
  THEN t
  ELSE IF ScheduleEvaluation(next).pending THEN ScheduleEvaluation(next) ELSE t

\* The effect after a render that took the state from `prev` to `next`. Its
\* dependencies are state.flippedCards and state.board: when neither changed
\* the effect is not re-run and the pending timeout stays; otherwise the
\* cleanup clears the pending timeout and the body runs again.  (The reducer
\* never yields a new array of two flipped ids equal to the previous one, so
\* comparing values is the same as comparing the references.)
AutoMatchEffect(prev, next, t) ==
  IF ~DependenciesChanged(prev, next)
  THEN t
  ELSE ScheduleEvaluation(next)

SessionStart == {"START_GAME", "RESET_GAME"}
Evaluation == {"MATCH_CARDS", "UNMATCH_CARDS"}

\* A dispatch: the reducer's result, the effect that follows the render, and
\* the bookkeeping of the call.
DispatchSession(type, next) ==
  /\ state' = next
  /\ timer' = AutoMatchEffect(state, next, timer)
  /\ lastAction' = type
  /\ evaluations' = IF type \in SessionStart THEN 0
                    ELSE IF type \in Evaluation THEN evaluations + 1
                    ELSE evaluations
  /\ reachedCompleted' = IF type \in SessionStart THEN FALSE
                         ELSE reachedCompleted \/ next.gameStatus = "completed"
  /\ timeoutCleared' = (timer.pending /\ type \notin Evaluation /\ timer' # timer)

\* A dispatch made through the hook alone: no timer is involved.
Dispatch(type, next) ==
  /\ DispatchSession(type, next)
  /\ UNCHANGED <<call, timerVars>>

Init ==
  /\ SessionInit
  /\ call = NoCall
  /\ TimerInit

\* The boards createGameBoard can return, over the outcomes of Math.random.
Boards ==
  [difficulty \in Difficulty, category \in Categories |->
     {createGameBoard(difficulty, category, js) :
        js \in RandomDraws(BoardSize(difficulty, category))}]

startGame ==
  \E difficulty \in Difficulty, category \in Categories :
    \E board \in Boards[difficulty, category] :
      Dispatch("START_GAME", START_GAME(state, difficulty, category, board))

\* flipCard(cardId); the player stops flipping once moves reached MaxMoves.
flipCard ==
  \E cardId \in CardIds :
    /\ state.moves < MaxMoves
    /\ Dispatch("FLIP_CARD", FLIP_CARD(state, cardId))

\* The pending timeout fires: handleCardMatch or handleCardUnmatch.
evaluate ==
  /\ timer.pending
  /\ IF timer.isMatch
     THEN Dispatch("MATCH_CARDS", MATCH_CARDS(state, timer.cardIds))
     ELSE Dispatch("UNMATCH_CARDS", UNMATCH_CARDS(state, timer.cardIds))

pauseGame == Dispatch("PAUSE_GAME", PAUSE_GAME(state))

resumeGame == Dispatch("RESUME_GAME", RESUME_GAME(state))

resetGame == Dispatch("RESET_GAME", RESET_GAME(state))

\* updateTime(timeElapsed): the timer tick handed to the session.
updateTime ==
  \E timeElapsed \in 0..MaxTime :
    Dispatch("UPDATE_TIME", UPDATE_TIME(state, timeElapsed))

Next ==
  \/ startGame
  \/ flipCard
  \/ evaluate
  \/ pauseGame
  \/ resumeGame
  \/ resetGame
  \/ updateTime

Spec == Init /\ [][Next]_vars

(***************************************************************************)
(* Properties of the session                                               *)
(***************************************************************************)

TotalPairs(s) == DIFFICULTY_CONFIGS[s.difficulty].pairs

\* The pairId of the card with the given id (the card is on the board).
PairIdOf(board, cardId) == CardOf(board, cardId).pairId

\* An evaluation callback fires in this step.
EvaluationFires == lastAction' \in Evaluation

\* Two cards are selected and they share / do not share a pairId.
SelectionMatches ==
  /\ Len(state.flippedCards) = 2
  /\ PairIdOf(state.board, state.flippedCards[1]) = PairIdOf(state.board, state.flippedCards[2])

SelectionDiffers ==
  /\ Len(state.flippedCards) = 2
  /\ PairIdOf(state.board, state.flippedCards[1]) # PairIdOf(state.board, state.flippedCards[2])

Selected(s, cardId) == \E k \in 1..Len(s.flippedCards) : s.flippedCards[k] = cardId

\* C1: in every reachable state flippedCards holds at most 2 card ids.
C1_SelectionAtMostTwo == Len(state.flippedCards) \in {0, 1, 2}

C1_Witness == Len(state.flippedCards) = 2 /\ lastAction = "FLIP_CARD"

C3_CompletedIffAllMatched ==
  (state.gameStatus = "completed") <=> (Len(state.matchedPairs) = TotalPairs(state))

\* C4: once the session has reached 'completed', no flipCard call changes
\* the state until startGame or resetGame, whatever pause/resume calls are
\* made in between.
C4_CompletedRejectsFlips ==
  reachedCompleted =>
    \A cardId \in CardIds :
      /\ FLIP_CARD(state, cardId) = state
      /\ AutoMatchEffect(state, FLIP_CARD(state, cardId), timer) = timer

C4_Witness ==
  /\ reachedCompleted
  /\ state.gameStatus = "playing"
  /\ lastAction = "FLIP_CARD"

\* The conditions under which flipCard(cardId) must be rejected.
FlipRejected(s, cardId) ==
  \/ s.gameStatus # "playing"
  \/ \A p \in 1..Len(s.board) : s.board[p].id # cardId
  \/ \E p \in 1..Len(s.board) :
       s.board[p].id = cardId /\ (s.board[p].isFlipped \/ s.board[p].isMatched)
  \/ Len(s.flippedCards) >= 2

\* C5: flipCard(cardId) leaves the whole session unchanged whenever the
\* game is not playing, the card does not exist, the card is already flipped
\* or matched, or two cards are already selected.
C5_RejectedFlipIsNoOp ==
  \A cardId \in CardIds :
    FlipRejected(state, cardId) =>
      /\ FLIP_CARD(state, cardId) = state
      /\ AutoMatchEffect(state, FLIP_CARD(state, cardId), timer) = timer

C5_Witness ==
  /\ lastAction = "FLIP_CARD"
  /\ state.gameStatus = "paused"
  /\ Len(state.board) > 0

\* C6: when the two selected cards share a pairId, the evaluation marks both
\* matched and keeps them flipped, appends one pair to matchedPairs, adds 1
\* to moves, empties flippedCards, and sets 'completed' exactly when the
\* matched pair count now equals the difficulty's pair count.
C6_MatchEvaluation ==
  [][(SelectionMatches /\ EvaluationFires) =>
       /\ Len(state'.board) = Len(state.board)
       /\ \A p \in 1..Len(state.board) :
            Selected(state, state.board[p].id) =>
              state'.board[p].isMatched /\ state'.board[p].isFlipped
       /\ state'.matchedPairs =
            Append(state.matchedPairs, PairIdOf(state.board, state.flippedCards[1]))
       /\ state'.moves = state.moves + 1
       /\ state'.flippedCards = <<>>
       /\ (state'.gameStatus = "completed")
            <=> (Len(state'.matchedPairs) = TotalPairs(state'))]_vars

C6_Witness ==
  /\ lastAction = "MATCH_CARDS"
  /\ state.gameStatus = "completed"
  /\ Len(state.matchedPairs) = TotalPairs(state)

\* C7: when the two selected cards have different pairIds, the evaluation
\* flips both back, adds 1 to moves, empties flippedCards, and leaves score,
\* matchedPairs, gameStatus and every other card unchanged.
C7_MismatchEvaluation ==
  [][(SelectionDiffers /\ EvaluationFires) =>
       /\ Len(state'.board) = Len(state.board)
       /\ \A p \in 1..Len(state.board) :
            IF Selected(state, state.board[p].id)
            THEN ~state'.board[p].isFlipped
            ELSE state'.board[p] = state.board[p]
       /\ state'.moves = state.moves + 1
       /\ state'.flippedCards = <<>>
       /\ state'.score = state.score
       /\ state'.matchedPairs = state.matchedPairs
       /\ state'.gameStatus = state.gameStatus]_vars

C7_Witness ==
  /\ lastAction = "UNMATCH_CARDS"
  /\ state.moves = 1
  /\ state.flippedCards = <<>>
  /\ \A p \in 1..Len(state.board) : ~state.board[p].isFlipped

\* C8: pauseGame changes the state only when gameStatus is 'playing' (to
\* 'paused') and resumeGame only when it is 'paused' (to 'playing'); in any
\* other status each is a no-op.
C8_PauseResumeGuarded ==
  [][/\ lastAction' = "PAUSE_GAME" =>
          IF state.gameStatus = "playing"
          THEN state' = [state EXCEPT !.gameStatus = "paused"]
          ELSE state' = state
     /\ lastAction' = "RESUME_GAME" =>
          IF state.gameStatus = "paused"
          THEN state' = [state EXCEPT !.gameStatus = "playing"]
          ELSE state' = state]_vars

\* C9: an evaluation callback that fires while the session is paused does
\* not change the board, moves, matchedPairs, score or gameStatus.
C9_PausedSessionNotMutated ==
  [][(state.gameStatus = "paused" /\ EvaluationFires) =>
       /\ state'.board = state.board
       /\ state'.moves = state.moves
       /\ state'.matchedPairs = state.matchedPairs
       /\ state'.score = state.score
       /\ state'.gameStatus = "paused"]_vars

\* C10: a pending evaluation never outlives resetGame / startGame: after
\* either call no timeout is pending, moves is 0, matchedPairs is empty and
\* no card is flipped or matched; and a timeout that is pending is always
\* the one for the current selection on the current board.
C10_NoStaleEvaluation ==
  /\ lastAction \in SessionStart =>
       /\ ~timer.pending
       /\ state.moves = 0
       /\ state.matchedPairs = <<>>
       /\ \A p \in 1..Len(state.board) :
            ~state.board[p].isFlipped /\ ~state.board[p].isMatched
  /\ timer.pending =>
       /\ timer.cardIds = state.flippedCards
       /\ \A k \in 1..2 : HasCard(state.board, timer.cardIds[k])
       /\ \A k \in 1..2 : CardOf(state.board, timer.cardIds[k]).isFlipped

C10_Witness ==
  /\ lastAction \in SessionStart
  /\ timeoutCleared

(***************************************************************************)
(* The scoring functions                                                   *)
(***************************************************************************)

BASE_MATCH_POINTS == 100
PERFECT_MATCH_BONUS == 500
TIME_BONUS_MAX == 1000
TIME_BONUS_THRESHOLD == 300
MOVE_PENALTY_MULTIPLIER == 10
COMPLETION_BONUS == 200

\* The four difficulties of the game
AllDifficulties == {"easy", "medium", "hard", "expert"}

\* The pair counts of DIFFICULTY_CONFIGS as shipped.  The scoring functions
\* take the table in force as `configs`: this one, or the scaled-down
\* DIFFICULTY_CONFIGS of the session.
SHIPPED_DIFFICULTY_CONFIGS ==
  [d \in AllDifficulties |->
     [pairs |-> CASE d = "easy" -> 8
                  [] d = "medium" -> 12
                  [] d = "hard" -> 18
                  [] d = "expert" -> 24]]

\* DIFFICULTY_MULTIPLIERS in tenths: 1.0, 1.5, 2.0 and 2.5
DIFFICULTY_MULTIPLIERS_X10 ==
  [d \in AllDifficulties |->
     CASE d = "easy" -> 10
       [] d = "medium" -> 15
       [] d = "hard" -> 20
       [] d = "expert" -> 25]

\* Math.round(n / d) for d > 0: the nearest integer, a half rounded up.
RoundDiv(n, d) == (2 * n + d) \div (2 * d)

calculateOptimalMoves(configs, difficulty) == configs[difficulty].pairs

\* Variant: the bonus is not kept from going below 0.
calculateTimeBonus_NoFloor(timeElapsed) ==
  IF timeElapsed <= 0 THEN TIME_BONUS_MAX
  ELSE RoundDiv(TIME_BONUS_MAX * (TIME_BONUS_THRESHOLD - timeElapsed),
                TIME_BONUS_THRESHOLD)

\* Math.round(Math.max(0, TIME_BONUS_MAX * (1 - timeElapsed / TIME_BONUS_THRESHOLD)))
calculateTimeBonus(timeElapsed) ==
  IF timeElapsed <= 0 THEN TIME_BONUS_MAX
  ELSE RoundDiv(Max(0, TIME_BONUS_MAX * (TIME_BONUS_THRESHOLD - timeElapsed)),
                TIME_BONUS_THRESHOLD)

\* Variant: fewer moves than optimal earn nothing.
calculateMoveEfficiencyScore_NoBonus(configs, moves, difficulty) ==
  LET moveDifference == moves - calculateOptimalMoves(configs, difficulty)
  IN  IF moveDifference <= 0 THEN 0
      ELSE (0 - moveDifference) * MOVE_PENALTY_MULTIPLIER

calculateMoveEfficiencyScore(configs, moves, difficulty) ==
  LET moveDifference == moves - calculateOptimalMoves(configs, difficulty)
  IN  IF moveDifference <= 0
      THEN (0 - moveDifference) * MOVE_PENALTY_MULTIPLIER
      ELSE (0 - moveDifference) * MOVE_PENALTY_MULTIPLIER

\* Math.round(baseScore * (multiplier - 1))
calculateDifficultyBonus(baseScore, difficulty) ==
  RoundDiv(baseScore * (DIFFICULTY_MULTIPLIERS_X10[difficulty] - 10), 10)

\* Variant: the total is not kept from going below 0.
calculateScoreBreakdown_Unclamped(configs, difficulty, timeElapsed, moves, matchedPairs, isCompleted) ==
  LET baseScore == matchedPairs * BASE_MATCH_POINTS
      difficultyBonus == calculateDifficultyBonus(baseScore, difficulty)
      timeBonus == IF isCompleted THEN calculateTimeBonus(timeElapsed) ELSE 0
      moveEfficiency == IF isCompleted
                        THEN calculateMoveEfficiencyScore(configs, moves, difficulty) ELSE 0
      completionBonus == IF isCompleted THEN COMPLETION_BONUS ELSE 0
      perfectBonus == IF isCompleted /\ moves = calculateOptimalMoves(configs, difficulty)
                      THEN PERFECT_MATCH_BONUS ELSE 0
  IN  [baseScore |-> baseScore,
       timeBonus |-> timeBonus,
       moveEfficiency |-> moveEfficiency,
       difficultyBonus |-> difficultyBonus,
       completionBonus |-> completionBonus,
       perfectBonus |-> perfectBonus,
       totalScore |-> baseScore + difficultyBonus + timeBonus + moveEfficiency
                       + completionBonus + perfectBonus]

calculateScoreBreakdown(configs, difficulty, timeElapsed, moves, matchedPairs, isCompleted) ==
  LET baseScore == matchedPairs * BASE_MATCH_POINTS
      difficultyBonus == calculateDifficultyBonus(baseScore, difficulty)
      timeBonus == IF isCompleted THEN calculateTimeBonus(timeElapsed) ELSE 0
      moveEfficiency == IF isCompleted
                        THEN calculateMoveEfficiencyScore(configs, moves, difficulty) ELSE 0
      completionBonus == IF isCompleted THEN COMPLETION_BONUS ELSE 0
      perfectBonus == IF isCompleted /\ moves = calculateOptimalMoves(configs, difficulty)
                      THEN PERFECT_MATCH_BONUS ELSE 0
  IN  [baseScore |-> baseScore,
       timeBonus |-> timeBonus,
       moveEfficiency |-> moveEfficiency,
       difficultyBonus |-> difficultyBonus,
       completionBonus |-> completionBonus,
       perfectBonus |-> perfectBonus,
       totalScore |-> Max(0, baseScore + difficultyBonus + timeBonus + moveEfficiency
                               + completionBonus + perfectBonus)]

\* C11: after every match evaluation the session's score equals the total
\* of the score breakdown for the current difficulty, elapsed seconds,
\* moves, matched-pair count and completion flag.
C11_ScoreIsBreakdownTotal ==
  lastAction = "MATCH_CARDS" =>
    state.score = calculateScoreBreakdown(DIFFICULTY_CONFIGS, state.difficulty,
                                          state.timeElapsed, state.moves,
                                          Len(state.matchedPairs),
                                          state.gameStatus = "completed").totalScore

(***************************************************************************)
(* The session started with any category, also one that is too short       *)
(***************************************************************************)

\* A category with one emoji less than "medium" needs.
ShortCategory == EmojiList(MediumPairs - 1)

AnyCategories == Categories \cup {ShortCategory}

startGameAnyCategory ==
  \E difficulty \in Difficulty, category \in AnyCategories :
    \E js \in RandomDraws(BoardSize(difficulty, category)) :
      Dispatch("START_GAME",
               START_GAME(state, difficulty, category,
                          createGameBoard(difficulty, category, js)))

ConfigNext ==
  \/ startGameAnyCategory
  \/ flipCard
  \/ evaluate
  \/ pauseGame
  \/ resumeGame
  \/ resetGame
  \/ updateTime

ConfigSpec == Init /\ [][ConfigNext]_vars

\* C12: startGame never leaves the session 'playing' on a board with fewer
\* than 2 x pairCount cards (a category that is too short is refused).
C12_NoUndersizedSession ==
  lastAction = "START_GAME" =>
    ~(state.gameStatus = "playing" /\ Len(state.board) < 2 * TotalPairs(state))

\* C13: startGame, from whatever status, yields a freshly generated board
\* with no card flipped or matched, empty flippedCards and matchedPairs,
\* moves, timeElapsed and score 0, and gameStatus 'playing'.
C13_StartGameYieldsFreshSession ==
  lastAction = "START_GAME" =>
    /\ state.board \in Boards[state.difficulty, state.category]
    /\ \A p \in 1..Len(state.board) :
         ~state.board[p].isFlipped /\ ~state.board[p].isMatched
    /\ state.flippedCards = <<>>
    /\ state.matchedPairs = <<>>
    /\ state.moves = 0
    /\ state.timeElapsed = 0
    /\ state.score = 0
    /\ state.gameStatus = "playing"

\* startGame was called in the middle of a turn, an evaluation pending, and
\* replaced that session by a fresh 'medium' one.
C13_Witness ==
  /\ lastAction = "START_GAME"
  /\ timeoutCleared
  /\ state.gameStatus = "playing"
  /\ state.difficulty = "medium"
  /\ Len(state.board) = 2 * MediumPairs
  /\ state.moves = 0

(***************************************************************************)
(* fisherYatesShuffle applied to every small array                         *)
(***************************************************************************)

MaxArrayLen == 3
MaxElement == 2

\* The input arrays: up to MaxArrayLen elements, repeated elements included
Arrays == UNION {[1..n -> 1..MaxElement] : n \in 0..MaxArrayLen}

ShuffleInit ==
  /\ SessionInit
  /\ TimerInit
  /\ \E array \in Arrays :
       \E js \in ShuffleDraws(Len(array)) :
         call = [fn |-> "fisherYatesShuffle",
                 array |-> array,
                 js |-> js,
                 done |-> FALSE,
                 result |-> [returned |-> <<>>, array |-> array, isNewArray |-> FALSE]]

applyShuffle ==
  /\ call.fn = "fisherYatesShuffle"
  /\ ~call.done
  /\ call' = [call EXCEPT !.done = TRUE,
                          !.result = fisherYatesShuffle(call.array, call.js)]
  /\ UNCHANGED <<sessionVars, timerVars>>

ShuffleNext == applyShuffle

ShuffleSpec == ShuffleInit /\ [][ShuffleNext]_vars

\* Property helper: occurrences of the element v in the array
Count(array, v) == Cardinality({p \in 1..Len(array) : array[p] = v})

\* C16: for every input array and every outcome of the random source,
\* fisherYatesShuffle returns a new array with the length and the multiset
\* of elements of the input, leaves the input array as it was, and returns
\* [] for [] and [x] for [x].
C16_ShuffleIsPermutation ==
  (call.fn = "fisherYatesShuffle" /\ call.done) =>
    /\ call.result.isNewArray
    /\ Len(call.result.returned) = Len(call.array)
    /\ \A v \in 1..MaxElement :
         Count(call.result.returned, v) = Count(call.array, v)
    /\ call.result.array = call.array
    /\ Len(call.array) <= 1 => call.result.returned = call.array

\* An array of three elements came back in another order.
C16_Witness ==
  /\ call.fn = "fisherYatesShuffle"
  /\ call.done
  /\ Len(call.array) = 3
  /\ call.result.returned # call.array
  /\ call.result.returned[3] = call.array[1]

(***************************************************************************)
(* createGameBoard of gameLogic.ts applied to every preset and small pool   *)
(***************************************************************************)

\* The largest pool has PoolSurplus emojis more than the largest preset needs
PoolSurplus == 1

\* A category that lists one symbol twice, as the shipped 'objects' category
\* does: its first symbol comes again at the end.
RepeatedSymbolCategory == Append(EmojiList(MaxPairs), 1)

Pools == {EmojiList(n) : n \in 1..(MaxPairs + PoolSurplus)} \cup {RepeatedSymbolCategory}

GenInit ==
  /\ SessionInit
  /\ TimerInit
  /\ \E difficulty \in Difficulty, category \in Pools :
       \E emojiJs \in ShuffleDraws(Len(category)),
          cardJs \in ShuffleDraws(2 * DIFFICULTY_CONFIGS[difficulty].pairs) :
         call = [fn |-> "createGameBoard",
                 difficulty |-> difficulty,
                 category |-> category,
                 emojiJs |-> emojiJs,
                 cardJs |-> cardJs,
                 done |-> FALSE,
                 result |-> [ok |-> FALSE, error |-> "not called"]]

applyCreateGameBoard ==
  /\ call.fn = "createGameBoard"
  /\ ~call.done
  /\ call' = [call EXCEPT !.done = TRUE,
                          !.result = gameLogic_createGameBoard(call.difficulty,
                                       call.category, call.emojiJs, call.cardJs)]
  /\ UNCHANGED <<sessionVars, timerVars>>

GenNext == applyCreateGameBoard

GenSpec == GenInit /\ [][GenNext]_vars

\* C15: for every difficulty preset and every pool with at least pairCount
\* symbols the generated board has 2 x pairCount cards, every pairId is on
\* exactly 2 cards, there are pairCount distinct pairIds, every card's id
\* is its position in the board (so ids are unique), and validateGameBoard
\* accepts the board.
C15_GeneratedBoardIsValid ==
  (/\ call.fn = "createGameBoard"
   /\ call.done
   /\ Len(call.category) >= DIFFICULTY_CONFIGS[call.difficulty].pairs) =>
    /\ call.result.ok
    /\ LET board == call.result.value
           pairCount == DIFFICULTY_CONFIGS[call.difficulty].pairs
       IN  /\ Len(board) = 2 * pairCount
           /\ \A p \in 1..Len(board) :
                Cardinality({q \in 1..Len(board) : board[q].pairId = board[p].pairId}) = 2
           /\ Cardinality({board[p].pairId : p \in 1..Len(board)}) = pairCount
           /\ \A p \in 1..Len(board) : board[p].id = p - 1
           /\ \A p, q \in 1..Len(board) : board[p].id = board[q].id => p = q
           /\ validateGameBoard(board, call.difficulty)

\* A 'medium' board from a pool larger than needed, with its cards shuffled.
C15_Witness ==
  /\ call.fn = "createGameBoard"
  /\ call.done
  /\ call.difficulty = "medium"
  /\ Len(call.category) > DIFFICULTY_CONFIGS["medium"].pairs
  /\ call.result.ok
  /\ call.result.value[1].pairId # 0
  /\ call.result.value[1].emoji # call.category[1]

(***************************************************************************)
(* The timer hook driven by its caller and by the clock                    *)
(***************************************************************************)

\* The clock is observed every ClockStepMs milliseconds, MaxClockSteps times
ClockStepMs == 500
MaxClockSteps == 8

\* No scheduled tick is due.  A tick that is due runs before the clock
\* moves on and before any call made at that instant.
NoTickDue == \A iv \in tm.intervals : iv.due > now

\* A call of one of the hook's operations, made by a callback of the
\* current render; `next` is the timer the operation leaves.
TimerCall(name, next) ==
  LET fresh == ~tm.timerState.isRunning /\ ~tm.timerState.isPaused
               /\ next.timerState.isRunning
      stopped == name = "reset"
      pausing == tm.timerState.isRunning /\ ~tm.timerState.isPaused
                 /\ next.timerState.isPaused
  IN  /\ mounted
      /\ NoTickDue
      /\ tm' = next
      /\ lastCall' = name
      /\ runningMs' = IF fresh \/ stopped THEN 0 ELSE runningMs
      /\ pausedMs' = IF fresh \/ stopped THEN 0 ELSE pausedMs
      /\ pausesAligned' = IF fresh \/ stopped THEN TRUE
                          ELSE IF pausing
                               THEN pausesAligned /\ runningMs % MS_PER_SECOND = 0
                               ELSE pausesAligned
      /\ UNCHANGED <<now, mounted, sessionVars, call>>

timerStart == TimerCall("start", useTimer_start(tm, tm.timerState, now))

timerPause == TimerCall("pause", useTimer_pause(tm, tm.timerState))

timerResume == TimerCall("resume", useTimer_resume(tm, tm.timerState, now))

timerToggle == TimerCall("toggle", useTimer_toggle(tm, tm.timerState, now))

timerReset == TimerCall("reset", useTimer_reset(tm))

\* A tick that is due runs.
tick ==
  \E iv \in tm.intervals :
    /\ iv.due <= now
    /\ tm' = IntervalCallback(tm, iv, now)
    /\ lastCall' = "tick"
    /\ UNCHANGED <<now, runningMs, pausedMs, pausesAligned, mounted, sessionVars, call>>

\* The clock moves on by one step.
advance ==
  /\ NoTickDue
  /\ now + ClockStepMs <= MaxClockSteps * ClockStepMs
  /\ now' = now + ClockStepMs
  /\ lastCall' = "advance"
  /\ runningMs' = IF mounted /\ tm.timerState.isRunning /\ ~tm.timerState.isPaused
                  THEN runningMs + ClockStepMs ELSE runningMs
  /\ pausedMs' = IF mounted /\ tm.timerState.isPaused
                 THEN pausedMs + ClockStepMs ELSE pausedMs
  /\ UNCHANGED <<tm, pausesAligned, mounted, sessionVars, call>>

\* The component unmounts: the cleanup runs, the hook's callbacks are no
\* longer called.
unmount ==
  /\ mounted
  /\ NoTickDue
  /\ mounted' = FALSE
  /\ tm' = useTimer_cleanup(tm)
  /\ lastCall' = "unmount"
  /\ UNCHANGED <<now, runningMs, pausedMs, pausesAligned, sessionVars, call>>

TimerNext ==
  \/ unmount
  \/ timerStart
  \/ timerPause
  \/ timerResume
  \/ timerToggle
  \/ timerReset
  \/ tick
  \/ advance

TimerSpec == Init /\ [][TimerNext]_vars

\* C17: time spent paused contributes zero.  While every pause fell on a
\* whole second of running time, timeElapsed after each tick is the running
\* time in whole seconds (2000 ms run, 1000 ms paused, 1000 ms run give 3),
\* and timeElapsed does not change while the timer stays paused.
C17_PausedTimeContributesZero ==
  [][/\ (/\ tm'.timerState.isRunning \/ tm'.timerState.isPaused
         /\ pausesAligned'
         /\ \A iv \in tm'.intervals : iv.due > now')
          => tm'.timerState.timeElapsed = runningMs' \div MS_PER_SECOND
     /\ (tm.timerState.isPaused /\ tm'.timerState.isPaused)
          => tm'.timerState.timeElapsed = tm.timerState.timeElapsed]_vars

\* 2000 ms run, at least 1000 ms paused, 1000 ms run: the tick reports 3.
C17_Witness ==
  /\ lastCall = "tick"
  /\ tm.timerState.isRunning
  /\ pausesAligned
  /\ runningMs = 3 * MS_PER_SECOND
  /\ pausedMs >= MS_PER_SECOND
  /\ tm.timerState.timeElapsed = 3

\* C18: whenever a tick ran, timeElapsed is the whole seconds of the time
\* the timer spent running, wherever the pauses fell.
C18_NoRunningTimeLost ==
  lastCall = "tick" => tm.timerState.timeElapsed = runningMs \div MS_PER_SECOND

C20_PausedTimerStillRunning ==
  (lastCall \in {"pause", "toggle"} /\ tm.timerState.isPaused)
    => tm.timerState.isRunning

(***************************************************************************)
(* The GameBoard component: the session and the timer wired together       *)
(***************************************************************************)

\* The difficulty selector is left at its initial value.
SelectedDifficulties == {"easy"}

\* Variant: a third card may be turned while two are face up.
canFlipCardResult_NoLimit(s, cardId) ==
  IF s.gameStatus # "playing" THEN "false"
  ELSE IF ~HasCard(s.board, cardId) THEN "undefined"
  ELSE IF ~CardOf(s.board, cardId).isFlipped /\ ~CardOf(s.board, cardId).isMatched
       THEN "true"
       ELSE "false"

\* The value canFlipCard of the hook returns: false on the two early returns,
\* else card && !card.isFlipped && !card.isMatched, which is undefined when
\* find() finds no card.
canFlipCardResult(s, cardId) ==
  IF s.gameStatus # "playing" THEN "false"
  ELSE IF Len(s.flippedCards) >= 2 THEN "false"
  ELSE IF ~HasCard(s.board, cardId) THEN "undefined"
  ELSE IF ~CardOf(s.board, cardId).isFlipped /\ ~CardOf(s.board, cardId).isMatched
       THEN "true"
       ELSE "false"

\* canFlipCard of the hook as its callers read it: if (canFlipCard(cardId)),
\* disabled={!canFlipCard(card.id)}
canFlipCard(s, cardId) == canFlipCardResult(s, cardId) = "true"

\* canFlipCard of gameLogic.ts; card is the set of cards found, empty for
\* undefined.
gameLogic_canFlipCard(card, flippedCardsCount, gameStatus) ==
  IF card = {} \/ gameStatus # "playing" THEN FALSE
  ELSE IF \E c \in card : c.isFlipped \/ c.isMatched THEN FALSE
  ELSE IF flippedCardsCount >= 2 THEN FALSE
  ELSE TRUE

\* Variant: the effect leaves a running timer alone when the session is
\* neither playing nor paused.
SyncTimerEffect_OnlyPaused(s, t, nowMs) ==
  IF s.gameStatus = "playing" /\ ~t.timerState.isRunning
  THEN useTimer_start(t, t.timerState, nowMs)
  ELSE IF s.gameStatus = "paused" /\ t.timerState.isRunning
  THEN useTimer_pause(t, t.timerState)
  ELSE t

\* The effect that syncs the timer with the game state, run after a render
\* that shows the session s and the timer t.
SyncTimerEffect(s, t, nowMs) ==
  LET isGameActive == s.gameStatus = "playing"
      isGamePaused == s.gameStatus = "paused"
      isTimerRunning == t.timerState.isRunning
  IN  IF isGameActive /\ ~isTimerRunning THEN useTimer_start(t, t.timerState, nowMs)
      ELSE IF isGamePaused /\ isTimerRunning THEN useTimer_pause(t, t.timerState)
      ELSE IF ~isGameActive /\ isTimerRunning THEN useTimer_pause(t, t.timerState)
      ELSE t

\* A handler or callback of the component ran: it dispatched `type`, which
\* gave the session s, and left the timer t.  The renders that follow run
\* the sync effect until it changes nothing, and the effect that hands a
\* changed timeElapsed to the session.
ComponentStep(handler, type, s, t) ==
  LET synced == SyncTimerEffect(s, SyncTimerEffect(s, t, now), now)
      shown == IF synced.timerState.timeElapsed # tm.timerState.timeElapsed
               THEN UPDATE_TIME(s, synced.timerState.timeElapsed)
               ELSE s
  IN  /\ DispatchSession(type, shown)
      /\ tm' = synced
      /\ lastCall' = handler
      /\ UNCHANGED <<now, runningMs, pausedMs, pausesAligned, mounted, call>>

\* handleStartGame, from the Start / Play Again button or the modal: the
\* timer callbacks are those of the render the click happened in.
handleStartGame ==
  /\ NoTickDue
  /\ state.gameStatus \in {"setup", "completed"}
  /\ \E difficulty \in (IF state.gameStatus = "setup" THEN SelectedDifficulties
                        ELSE {state.difficulty}),
        category \in Categories :
       \E board \in Boards[difficulty, category] :
         ComponentStep("handleStartGame", "START_GAME",
                       START_GAME(state, difficulty, category, board),
                       useTimer_start(useTimer_reset(tm), tm.timerState, now))

handleCardClick ==
  /\ NoTickDue
  /\ state.moves < MaxMoves
  /\ \E cardId \in CardIds :
       /\ canFlipCard(state, cardId)
       /\ ComponentStep("handleCardClick", "FLIP_CARD", FLIP_CARD(state, cardId), tm)

\* The pending evaluation timeout fires.
evaluationTimeout ==
  /\ NoTickDue
  /\ timer.pending
  /\ IF timer.isMatch
     THEN ComponentStep("handleCardMatch", "MATCH_CARDS",
                        MATCH_CARDS(state, timer.cardIds), tm)
     ELSE ComponentStep("handleCardUnmatch", "UNMATCH_CARDS",
                        UNMATCH_CARDS(state, timer.cardIds), tm)

\* The Pause button is enabled while canPause holds.
handlePauseGame ==
  /\ NoTickDue
  /\ state.gameStatus = "playing" /\ Len(state.flippedCards) # 2
  /\ ComponentStep("handlePauseGame", "PAUSE_GAME", PAUSE_GAME(state),
                   useTimer_pause(tm, tm.timerState))

\* The Resume button is shown while canResume holds.
handleResumeGame ==
  /\ NoTickDue
  /\ state.gameStatus = "paused"
  /\ ComponentStep("handleResumeGame", "RESUME_GAME", RESUME_GAME(state),
                   useTimer_resume(tm, tm.timerState, now))

\* handleResetGame, called in whatever status the session has.
handleResetGame ==
  /\ NoTickDue
  /\ ComponentStep("handleResetGame", "RESET_GAME", RESET_GAME(state),
                   useTimer_reset(tm))

\* A tick that is due runs; the session is told the new timeElapsed.
componentTick ==
  \E iv \in tm.intervals :
    /\ iv.due <= now
    /\ LET t == IntervalCallback(tm, iv, now)
       IN  IF t.timerState.timeElapsed # tm.timerState.timeElapsed
           THEN ComponentStep("tick", "UPDATE_TIME", state, t)
           ELSE /\ tm' = t
                /\ lastCall' = "tick"
                /\ UNCHANGED <<now, runningMs, pausedMs, pausesAligned, mounted, call,
                                sessionVars>>

\* The clock moves on by one step, as long as the timer shows at most MaxTime.
componentAdvance ==
  /\ NoTickDue
  /\ now + ClockStepMs <= MaxClockSteps * ClockStepMs
  /\ tm.timerState.timeElapsed < MaxTime
  /\ now' = now + ClockStepMs
  /\ lastCall' = "advance"
  /\ UNCHANGED <<tm, runningMs, pausedMs, pausesAligned, mounted, call, sessionVars>>

GameBoardNext ==
  \/ handleStartGame
  \/ handleCardClick
  \/ evaluationTimeout
  \/ handlePauseGame
  \/ handleResumeGame
  \/ handleResetGame
  \/ componentTick
  \/ componentAdvance

GameBoardSpec == Init /\ [][GameBoardNext]_vars

\* C14: resetGame, in whatever status, yields gameStatus 'setup' with an
\* empty board, empty flippedCards and matchedPairs, moves, timeElapsed and
\* score 0, and, through handleResetGame, a timer that is idle at 0: not
\* running, not paused, nothing scheduled.
C14_ResetGameYieldsSetup ==
  lastCall = "handleResetGame" =>
    /\ state.gameStatus = "setup"
    /\ state.board = <<>>
    /\ state.flippedCards = <<>>
    /\ state.matchedPairs = <<>>
    /\ state.moves = 0
    /\ state.timeElapsed = 0
    /\ state.score = 0
    /\ tm.timerState = initialTimerState
    /\ tm.intervals = {}
    /\ tm.intervalRef = NULL

\* handleResetGame ran in the middle of a turn, an evaluation pending, more
\* than a second after the mount.
C14_Witness ==
  /\ lastCall = "handleResetGame"
  /\ timeoutCleared
  /\ state.gameStatus = "setup"
  /\ now >= MS_PER_SECOND
  /\ tm.timerState = initialTimerState

calculateGameScore_MultipliesAll(configs, difficulty, timeElapsed, moves, matchedPairs, isCompleted) ==
  LET base == matchedPairs * BASE_MATCH_POINTS
      bonuses == IF isCompleted
                 THEN calculateTimeBonus(timeElapsed)
                        + calculateMoveEfficiencyScore(configs, moves, difficulty)
                        + COMPLETION_BONUS
                        + (IF moves = calculateOptimalMoves(configs, difficulty)
                           THEN PERFECT_MATCH_BONUS ELSE 0)
                 ELSE 0
  IN  Max(0, RoundDiv((base + bonuses) * DIFFICULTY_MULTIPLIERS_X10[difficulty], 10))

\* calculateGameScore: the score is kept in tenths, since the multipliers
\* are 1.0, 1.5, 2.0 and 2.5, and rounded at the end by Math.round.
calculateGameScore(configs, difficulty, timeElapsed, moves, matchedPairs, isCompleted) ==
  LET scoreX10 == matchedPairs * BASE_MATCH_POINTS * DIFFICULTY_MULTIPLIERS_X10[difficulty]
      bonuses == IF isCompleted
                 THEN calculateTimeBonus(timeElapsed)
                        + calculateMoveEfficiencyScore(configs, moves, difficulty)
                        + COMPLETION_BONUS
                        + (IF moves = calculateOptimalMoves(configs, difficulty)
                           THEN PERFECT_MATCH_BONUS ELSE 0)
                 ELSE 0
  IN  Max(0, RoundDiv(scoreX10 + 10 * bonuses, 10))

\* Largest number of moves and largest elapsed time handed to the functions
MaxScoreMoves == 120
MaxElapsed == 310

\* Elapsed times handed to calculateScoreBreakdown: none, half the
\* threshold, the threshold, and beyond it
ScoreTimes == {0, TIME_BONUS_THRESHOLD \div 2, TIME_BONUS_THRESHOLD, MaxElapsed}

ScoreInit ==
  /\ SessionInit
  /\ TimerInit
  /\ \E difficulty \in AllDifficulties, timeElapsed \in ScoreTimes,
        moves \in 0..MaxScoreMoves, isCompleted \in BOOLEAN :
       \E matchedPairs \in 0..SHIPPED_DIFFICULTY_CONFIGS[difficulty].pairs :
         call = [fn |-> "calculateScoreBreakdown",
                 difficulty |-> difficulty,
                 timeElapsed |-> timeElapsed,
                 moves |-> moves,
                 matchedPairs |-> matchedPairs,
                 isCompleted |-> isCompleted,
                 done |-> FALSE,
                 result |-> [totalScore |-> 0],
                 gameScore |-> 0]

applyCalculateScoreBreakdown ==
  /\ call.fn = "calculateScoreBreakdown"
  /\ ~call.done
  /\ call' = [call EXCEPT
                !.done = TRUE,
                !.result = calculateScoreBreakdown(SHIPPED_DIFFICULTY_CONFIGS,
                             call.difficulty, call.timeElapsed, call.moves,
                             call.matchedPairs, call.isCompleted),
                !.gameScore = calculateGameScore(SHIPPED_DIFFICULTY_CONFIGS,
                                call.difficulty, call.timeElapsed, call.moves,
                                call.matchedPairs, call.isCompleted)]
  /\ UNCHANGED <<sessionVars, timerVars>>

ScoreNext == applyCalculateScoreBreakdown

ScoreSpec == ScoreInit /\ [][ScoreNext]_vars

\* C23: baseScore is matchedPairs x 100 and difficultyBonus is baseScore
\* times 0, 0.5, 1 and 1.5 for easy, medium, hard and expert; a game that is
\* not completed has timeBonus, moveEfficiency, completionBonus and
\* perfectBonus 0; a completed one has completionBonus 200, moveEfficiency
\* (pairCount - moves) x 10, and perfectBonus 500 exactly when moves is the
\* pair count, else 0.
C23_BreakdownComponents ==
  (call.fn = "calculateScoreBreakdown" /\ call.done) =>
    LET r == call.result
        pairCount == CASE call.difficulty = "easy" -> 8
                       [] call.difficulty = "medium" -> 12
                       [] call.difficulty = "hard" -> 18
                       [] call.difficulty = "expert" -> 24
        halves == CASE call.difficulty = "easy" -> 0
                    [] call.difficulty = "medium" -> 1
                    [] call.difficulty = "hard" -> 2
                    [] call.difficulty = "expert" -> 3
    IN  /\ r.baseScore = call.matchedPairs * 100
        /\ 2 * r.difficultyBonus = halves * r.baseScore
        /\ ~call.isCompleted =>
             /\ r.timeBonus = 0
             /\ r.moveEfficiency = 0
             /\ r.completionBonus = 0
             /\ r.perfectBonus = 0
        /\ call.isCompleted =>
             /\ r.completionBonus = 200
             /\ r.moveEfficiency = (pairCount - call.moves) * 10
             /\ r.perfectBonus = (IF call.moves = pairCount THEN 500 ELSE 0)

\* A completed expert game in fewer moves than pairs: a positive
\* moveEfficiency, no perfectBonus, difficultyBonus one and a half baseScore.
C23_Witness ==
  /\ call.fn = "calculateScoreBreakdown"
  /\ call.done
  /\ call.difficulty = "expert"
  /\ call.isCompleted
  /\ call.matchedPairs = 24
  /\ call.moves = 20
  /\ call.result.moveEfficiency = 40
  /\ call.result.difficultyBonus = 3600
  /\ call.result.perfectBonus = 0

\* C25: totalScore is the sum of the six components, or 0 when the sum is
\* negative, so it is never negative; score('easy', 0, 8, 8, true) has
\* timeBonus 1000, perfectBonus 500 and totalScore 2500.
C25_TotalIsClampedSum ==
  (call.fn = "calculateScoreBreakdown" /\ call.done) =>
    LET r == call.result
        sum == r.baseScore + r.difficultyBonus + r.timeBonus + r.moveEfficiency
                 + r.completionBonus + r.perfectBonus
    IN  /\ r.totalScore = (IF sum < 0 THEN 0 ELSE sum)
        /\ r.totalScore >= 0
        /\ (/\ call.difficulty = "easy"
            /\ call.timeElapsed = 0
            /\ call.moves = 8
            /\ call.matchedPairs = 8
            /\ call.isCompleted) =>
             /\ r.timeBonus = 1000
             /\ r.perfectBonus = 500
             /\ r.totalScore = 2500

\* A completed game with so many moves that the sum is negative: total 0.
C25_Witness ==
  /\ call.fn = "calculateScoreBreakdown"
  /\ call.done
  /\ call.isCompleted
  /\ call.moves = MaxScoreMoves
  /\ call.result.baseScore + call.result.difficultyBonus + call.result.timeBonus
       + call.result.moveEfficiency + call.result.completionBonus
       + call.result.perfectBonus < 0
  /\ call.result.totalScore = 0

(***************************************************************************)
(* calculateTimeBonus applied to every elapsed time up to MaxElapsed       *)
(***************************************************************************)

TimeBonusInit ==
  /\ SessionInit
  /\ TimerInit
  /\ \E timeElapsed \in 0..MaxElapsed :
       call = [fn |-> "calculateTimeBonus",
               timeElapsed |-> timeElapsed,
               done |-> FALSE,
               result |-> 0]

applyCalculateTimeBonus ==
  /\ call.fn = "calculateTimeBonus"
  /\ ~call.done
  /\ call' = [call EXCEPT !.done = TRUE,
                          !.result = calculateTimeBonus(call.timeElapsed)]
  /\ UNCHANGED <<sessionVars, timerVars>>

TimeBonusNext == applyCalculateTimeBonus

TimeBonusSpec == TimeBonusInit /\ [][TimeBonusNext]_vars

\* C24: the time bonus lies in 0..1000, is 1000 at 0 seconds, is 0 from 300
\* seconds on, and is not larger one second later.
C24_TimeBonusDecays ==
  (call.fn = "calculateTimeBonus" /\ call.done) =>
    /\ call.result \in 0..1000
    /\ call.timeElapsed = 0 => call.result = 1000
    /\ call.timeElapsed >= 300 => call.result = 0
    /\ calculateTimeBonus(call.timeElapsed + 1) <= call.result

\* One second before the threshold the bonus is 3, more than the 0 after it.
C24_Witness ==
  /\ call.fn = "calculateTimeBonus"
  /\ call.done
  /\ call.timeElapsed = 299
  /\ call.result = 3
  /\ calculateTimeBonus(300) = 0

(***************************************************************************)
(* The three flip guards                                                   *)
(***************************************************************************)

\* The card board.find() returns for the id, as gameLogic's canFlipCard
\* takes it: the first card with the id, or none.
FoundCard(board, cardId) ==
  IF HasCard(board, cardId) THEN {CardOf(board, cardId)} ELSE {}

\* C26: in every reachable state and for every card id, on the board or not,
\* the hook's canFlipCard returns true exactly when FLIP_CARD with that id
\* changes the state, and gameLogic's canFlipCard, given the card found, the
\* number of face-up cards and the status, allows the flip in the same cases.
C26_FlipGuardsAgree ==
  \A cardId \in CardIds :
    /\ (canFlipCardResult(state, cardId) = "true") <=> (FLIP_CARD(state, cardId) # state)
    /\ canFlipCard(state, cardId)
         <=> gameLogic_canFlipCard(FoundCard(state.board, cardId),
                                   Len(state.flippedCards), state.gameStatus)

\* Two cards are face up and waiting for their evaluation while another card
\* of the board is face down, and some id is on no card.
C26_Witness ==
  /\ state.gameStatus = "playing"
  /\ Len(state.flippedCards) = 2
  /\ \E cardId \in CardIds :
       /\ HasCard(state.board, cardId)
       /\ ~CardOf(state.board, cardId).isFlipped
       /\ ~CardOf(state.board, cardId).isMatched
       /\ ~canFlipCard(state, cardId)
  /\ \E cardId \in CardIds : canFlipCardResult(state, cardId) = "false" /\ ~HasCard(state.board, cardId)

(***************************************************************************)
(* useLocalStorage: loading the stored data on mount                       *)
(***************************************************************************)

\* What a JSON value stored under one of the three fields can be; "missing"
\* is a field the stored object does not have.
FieldValues == {"missing", "null", "zero", "number", "string", "array", "object"}

\* What localStorage can hold under STORAGE_KEY: nothing, the empty string,
\* a text that is not JSON, or the text of a JSON value.
StoredValues ==
  {[kind |-> k, gameStats |-> "missing", highScores |-> "missing",
    preferences |-> "missing"] :
       k \in {"absent", "empty", "invalid", "null", "number", "string", "boolean", "array"}}
  \cup
  {[kind |-> "object", gameStats |-> g, highScores |-> h, preferences |-> p] :
       g \in FieldValues, h \in FieldValues, p \in FieldValues}

\* safeJsonParse(value, defaultLocalStorageData): the fallback for a falsy
\* value (null or the empty string) and for a text JSON.parse rejects, else
\* whatever JSON.parse returns.
safeJsonParse(stored) ==
  IF stored.kind \in {"absent", "empty", "invalid"}
  THEN [kind |-> "defaultLocalStorageData", gameStats |-> "defaultGameStats",
        highScores |-> "emptyList", preferences |-> "defaultPreferences"]
  ELSE stored

\* Reading a property of a parsed value throws a TypeError on null; on a
\* number, a string, a boolean or an array the three properties are undefined.
PropertyReadThrows(parsed) == parsed.kind = "null"

\* { ...defaults, ...field }: spreading undefined, null or a number adds
\* nothing; a string or an array adds its indices as keys; an object
\* overwrites the defaults it names.
MergeWithDefaults(field) ==
  CASE field \in {"missing", "null", "zero", "number"} -> "defaults"
    [] field \in {"defaultGameStats", "defaultPreferences"} -> "defaults"
    [] field \in {"string", "array"} -> "defaultsPlusIndexKeys"
    [] field = "object" -> "defaultsOverlaid"

\* parsedData.highScores || []
HighScoresOrEmpty(field) ==
  CASE field \in {"missing", "null", "zero", "emptyList"} -> "emptyList"
    [] field = "array" -> "storedList"
    [] field \in {"number", "string", "object"} -> "storedNonList"

\* What the hook holds before the load effect has run.
initialLoadState ==
  [threw |-> FALSE,
   isLoaded |-> FALSE,
   gameStats |-> "defaults",
   highScores |-> "emptyList",
   preferences |-> "defaults"]

\* The load effect: parse, merge, setData and setIsLoaded.  The merge is not
\* inside a try block, so a TypeError leaves the effect before the setters.
loadEffect(stored) ==
  LET parsedData == safeJsonParse(stored)
  IN  IF PropertyReadThrows(parsedData)
      THEN [initialLoadState EXCEPT !.threw = TRUE]
      ELSE [threw |-> FALSE,
            isLoaded |-> TRUE,
            gameStats |-> MergeWithDefaults(parsedData.gameStats),
            highScores |-> HighScoresOrEmpty(parsedData.highScores),
            preferences |-> MergeWithDefaults(parsedData.preferences)]

LoadInit ==
  /\ SessionInit
  /\ TimerInit
  /\ \E stored \in StoredValues :
       call = [fn |-> "useLocalStorage",
               stored |-> stored,
               done |-> FALSE,
               result |-> initialLoadState]

\* The component mounts and the load effect runs.
mountLoad ==
  /\ call.fn = "useLocalStorage"
  /\ ~call.done
  /\ call' = [call EXCEPT !.done = TRUE, !.result = loadEffect(call.stored)]
  /\ UNCHANGED <<sessionVars, timerVars>>

LoadNext == mountLoad

LoadSpec == LoadInit /\ [][LoadNext]_vars

\* C27: whatever is stored (nothing, a text that is not JSON, JSON that is
\* not an object, an object with missing fields), the load effect completes
\* without throwing, and the data is marked as loaded.
C27_LoadNeverThrows ==
  (call.fn = "useLocalStorage" /\ call.done) =>
    /\ ~call.result.threw
    /\ call.result.isLoaded

(***************************************************************************)
(* The cards of a session                                                  *)
(***************************************************************************)

\* Property helper: what identifies the cards of a board, in board order.
CardIdentities(board) ==
  [p \in 1..Len(board) |->
     [id |-> board[p].id, emoji |-> board[p].emoji, pairId |-> board[p].pairId]]

\* C28: a step other than START_GAME and RESET_GAME (a flip, an evaluation,
\* a pause, a resume, a tick) keeps the cards of the board, their order and
\* each card's id, emoji and pairId, and leaves every matched card matched;
\* and a matched card is face up.
C28_CardsAreStable ==
  [][/\ lastAction' \notin SessionStart =>
          /\ CardIdentities(state'.board) = CardIdentities(state.board)
          /\ \A p \in 1..Len(state.board) :
               state.board[p].isMatched => state'.board[p].isMatched
     /\ \A p \in 1..Len(state'.board) :
          state'.board[p].isMatched => state'.board[p].isFlipped]_vars

\* The session was paused after a mismatch and a match: the matched pair is
\* still matched and face up, the other cards are face down.
C28_Witness ==
  /\ lastAction = "PAUSE_GAME"
  /\ state.moves = 2
  /\ \E p \in 1..Len(state.board) :
       state.board[p].isMatched /\ state.board[p].isFlipped
  /\ \E p \in 1..Len(state.board) :
       ~state.board[p].isMatched /\ ~state.board[p].isFlipped

\* C29: a pending evaluation was scheduled with 500 ms when the two cards
\* match and with 1500 ms, strictly longer, when they do not; while it is
\* pending both cards are face up and moves counts only the evaluations
\* completed before.
C29_EvaluationIsDelayed ==
  timer.pending =>
    /\ timer.delay = (IF timer.isMatch THEN 500 ELSE 1500)
    /\ timer.isMatch <=> (PairIdOf(state.board, timer.cardIds[1])
                            = PairIdOf(state.board, timer.cardIds[2]))
    /\ UNMATCH_DELAY > MATCH_DELAY
    /\ \A i \in 1..2 :
         /\ HasCard(state.board, timer.cardIds[i])
         /\ CardOf(state.board, timer.cardIds[i]).isFlipped
    /\ state.moves = evaluations

\* A mismatch waits for its evaluation after one evaluation was completed.
C29_Witness ==
  /\ timer.pending
  /\ ~timer.isMatch
  /\ timer.delay = UNMATCH_DELAY
  /\ state.moves = 1
  /\ lastAction = "FLIP_CARD"

(***************************************************************************)
(* The emojis of a generated board                                         *)
(***************************************************************************)

\* Property helper: number of cards of the board that show the emoji
CardsShowing(board, emoji) == Cardinality({p \in 1..Len(board) : board[p].emoji = emoji})

\* C30: on every generated board each emoji is on exactly two cards, also
\* when the category lists a symbol twice.
C30_EachEmojiOnTwoCards ==
  (call.fn = "createGameBoard" /\ call.done /\ call.result.ok) =>
    \A p \in 1..Len(call.result.value) :
      CardsShowing(call.result.value, call.result.value[p].emoji) = 2

(***************************************************************************)
(* fisherYatesShuffle applied to arrays of distinct elements               *)
(***************************************************************************)

\* Longest array of distinct elements handed to the shuffle
MaxPermLen == 5

RECURSIVE Factorial(_)
\* Property helper: n!, the number of orders of n distinct elements
Factorial(n) == IF n <= 1 THEN 1 ELSE n * Factorial(n - 1)

PermInit ==
  /\ SessionInit
  /\ TimerInit
  /\ \E n \in 0..MaxPermLen :
       \E js \in ShuffleDraws(n) :
         call = [fn |-> "fisherYatesShuffle",
                 array |-> EmojiList(n),
                 js |-> js,
                 done |-> FALSE,
                 result |-> [returned |-> <<>>, array |-> EmojiList(n),
                             isNewArray |-> FALSE]]

PermNext == applyShuffle

PermSpec == PermInit /\ [][PermNext]_vars

\* C31: for an array of n distinct elements the shuffle returns an order of
\* these elements, no other sequence of choices j returns the same order,
\* and there are n! sequences of choices, as many as there are orders: the
\* choices and the permutations correspond one-to-one.
C31_ChoicesArePermutations ==
  (call.fn = "fisherYatesShuffle" /\ call.done) =>
    LET n == Len(call.array)
    IN  /\ Len(call.result.returned) = n
        /\ \A v \in 1..n : Count(call.result.returned, v) = 1
        /\ \A js \in ShuffleDraws(n) :
             fisherYatesShuffle(call.array, js).returned = call.result.returned
               => js = call.js
        /\ Cardinality(ShuffleDraws(n)) = Factorial(n)

\* Four elements came back in reverse order.
C31_Witness ==
  /\ call.fn = "fisherYatesShuffle"
  /\ call.done
  /\ call.array = <<1, 2, 3, 4>>
  /\ call.result.returned = <<4, 3, 2, 1>>

(***************************************************************************)
(* The timer and the session in the game board                             *)
(***************************************************************************)

\* The timer advances: it is running and its interval is scheduled.
TimerAdvancing(t) == t.timerState.isRunning /\ t.intervals # {}

\* C32: in every state of the game board, reached after the effects of an
\* operation have run, the timer advances exactly when gameStatus is
\* 'playing'; it does not advance in setup, paused or completed.
C32_TimerInLockstep ==
  /\ TimerAdvancing(tm) <=> state.gameStatus = "playing"
  /\ tm.timerState.isRunning <=> state.gameStatus = "playing"

\* The last pair was matched after time had passed: the session is
\* completed and the timer holds its time without advancing.
C32_Witness ==
  /\ state.gameStatus = "completed"
  /\ lastCall = "handleCardMatch"
  /\ tm.timerState.timeElapsed = 1
  /\ ~TimerAdvancing(tm)

(***************************************************************************)
(* The pending evaluation                                                  *)
(***************************************************************************)

\* Positions of the cards that are face up and not matched
FaceUpUnmatched(s) ==
  {p \in 1..Len(s.board) : s.board[p].isFlipped /\ ~s.board[p].isMatched}

\* C33: while flippedCards has 2 entries one evaluation is pending, for
\* these two cards; every flipCard call, for whatever id, is rejected and
\* leaves the pending timeout as it is, and no third card is face up.
C33_PendingRejectsFlips ==
  Len(state.flippedCards) = 2 =>
    /\ timer.pending
    /\ timer.cardIds = state.flippedCards
    /\ \A cardId \in CardIds :
         /\ ~canFlipCard(state, cardId)
         /\ FLIP_CARD(state, cardId) = state
         /\ AutoMatchEffect(state, FLIP_CARD(state, cardId), timer) = timer
    /\ Cardinality(FaceUpUnmatched(state)) = 2

\* Two cards wait for their evaluation after a flipCard call, while two
\* other cards of the board are face down and unmatched.
C33_Witness ==
  /\ Len(state.flippedCards) = 2
  /\ timer.pending
  /\ lastAction = "FLIP_CARD"
  /\ Cardinality({p \in 1..Len(state.board) :
                    ~state.board[p].isFlipped /\ ~state.board[p].isMatched}) = 2

\* The outcome of the random source when Math.random() returns 0 at every
\* draw: j is 0 at every loop index.
LowDraws(n) == [i \in 1..(n - 1) |-> RandomIndex(0, i)]

\* startGame with the board of the low draws; the order of the cards has no
\* part in whether a selection is emptied.
startGameLowDraws ==
  \E difficulty \in Difficulty, category \in Categories :
    Dispatch("START_GAME",
             START_GAME(state, difficulty, category,
                        createGameBoard(difficulty, category,
                                        LowDraws(BoardSize(difficulty, category)))))

FairNext ==
  \/ startGameLowDraws
  \/ flipCard
  \/ evaluate
  \/ pauseGame
  \/ resumeGame
  \/ resetGame
  \/ updateTime

\* The session with timeouts that fire: a timeout that stays scheduled is
\* eventually run by the browser.
FairSpec == Init /\ [][FairNext]_vars /\ WF_vars(evaluate)

\* C34: whenever flippedCards holds 2 entries it is eventually empty again,
\* given that a scheduled timeout eventually fires.
C34_SelectionIsEventuallyEmptied ==
  (Len(state.flippedCards) = 2) ~> (Len(state.flippedCards) = 0)

\* The timeout of a mismatch fired while the session was paused and emptied
\* the selection.
C34_Witness ==
  /\ lastAction = "UNMATCH_CARDS"
  /\ state.flippedCards = <<>>
  /\ state.gameStatus = "paused"
  /\ state.moves = 1

(***************************************************************************)
(* The timer tick in the session                                           *)
(***************************************************************************)

\* C35: in every reachable state and for every time a tick may bring,
\* UPDATE_TIME changes timeElapsed and nothing else of the session, the
\* auto-match effect is not re-run after it, and a pending evaluation stays
\* scheduled as it was.
C35_TickChangesOnlyTime ==
  \A timeElapsed \in 0..MaxTime :
    LET next == UPDATE_TIME(state, timeElapsed)
    IN  /\ next = [state EXCEPT !.timeElapsed = timeElapsed]
        /\ next.board = state.board
        /\ next.flippedCards = state.flippedCards
        /\ next.matchedPairs = state.matchedPairs
        /\ next.moves = state.moves
        /\ next.score = state.score
        /\ next.gameStatus = state.gameStatus
        /\ ~DependenciesChanged(state, next)
        /\ AutoMatchEffect(state, next, timer) = timer

\* A tick arrived while two cards were waiting for their evaluation.
C35_Witness ==
  /\ lastAction = "UPDATE_TIME"
  /\ state.timeElapsed = 1
  /\ timer.pending
  /\ Len(state.flippedCards) = 2
  /\ ~timeoutCleared

(***************************************************************************)
(* The selection, the board and the matched pairs                          *)
(***************************************************************************)

\* The ids of the cards getFlippedCards returns: face up and not matched
FlippedUnmatchedIds(s) == {s.board[p].id : p \in FaceUpUnmatched(s)}

\* C36: in every reachable state the ids in flippedCards are exactly the ids
\* of the cards that are face up and not matched, they are distinct and
\* each is the id of a card of the board, and every matched card has its
\* pairId in matchedPairs.
C36_SelectionMirrorsBoard ==
  /\ {state.flippedCards[k] : k \in 1..Len(state.flippedCards)} = FlippedUnmatchedIds(state)
  /\ \A k, l \in 1..Len(state.flippedCards) :
       state.flippedCards[k] = state.flippedCards[l] => k = l
  /\ \A k \in 1..Len(state.flippedCards) : HasCard(state.board, state.flippedCards[k])
  /\ \A p \in 1..Len(state.board) :
       state.board[p].isMatched =>
         \E m \in 1..Len(state.matchedPairs) : state.matchedPairs[m] = state.board[p].pairId

\* One pair is matched and recorded while one card of the other pair is
\* selected.
C36_Witness ==
  /\ Len(state.flippedCards) = 1
  /\ Len(state.matchedPairs) = 1
  /\ Cardinality({p \in 1..Len(state.board) : state.board[p].isMatched}) = 2
  /\ Cardinality(FlippedUnmatchedIds(state)) = 1

\* C37: in every reachable state moves is at least the number of matched
\* pairs, and a completed game has at least as many moves as the difficulty
\* has pairs: a session never hands the scoring functions a completed game
\* with fewer moves than pairs.
C37_MovesCoverMatches ==
  /\ state.moves >= Len(state.matchedPairs)
  /\ state.gameStatus = "completed" =>
       /\ state.moves >= DIFFICULTY_CONFIGS[state.difficulty].pairs
       /\ calculateMoveEfficiencyScore(DIFFICULTY_CONFIGS, state.moves, state.difficulty) <= 0

\* A 'medium' game was completed with one move for each of its pairs.
C37_Witness ==
  /\ state.gameStatus = "completed"
  /\ lastAction = "MATCH_CARDS"
  /\ state.difficulty = "medium"
  /\ state.moves = Len(state.matchedPairs)
  /\ state.moves = DIFFICULTY_CONFIGS["medium"].pairs

\* C38: for every difficulty, elapsed time, number of moves, number of
\* matched pairs and completion flag, calculateGameScore returns the
\* totalScore of calculateScoreBreakdown.
C38_ScoreFunctionsAgree ==
  (call.fn = "calculateScoreBreakdown" /\ call.done) =>
    call.gameScore = call.result.totalScore

\* A completed 'expert' game in which only part of the pairs is counted:
\* every component takes part in the two totals.
C38_Witness ==
  /\ call.fn = "calculateScoreBreakdown"
  /\ call.done
  /\ call.difficulty = "expert"
  /\ call.isCompleted
  /\ call.matchedPairs = 3
  /\ call.moves = 30
  /\ call.timeElapsed = TIME_BONUS_THRESHOLD \div 2
  /\ call.gameScore = 750 + 500 - 60 + 200

(***************************************************************************)
(* GameBoard: recording a completed game                                   *)
(***************************************************************************)

\* Most games recorded in the statistics
MaxRecorded == 5

\* The part of the component the completion effect reads and writes: the
\* status of the session, the modal, the timeouts that will open the modal,
\* the counters of the stored statistics, whether a dependency of the effect
\* changed in the last render, and how often the game now completed was
\* recorded.
initialGameBoard ==
  [fn |-> "GameBoard",
   gameStatus |-> "setup",
   isModalOpen |-> FALSE,
   openTimeouts |-> 0,
   totalGames |-> 0,
   gamesWon |-> 0,
   highScores |-> 0,
   effectDue |-> FALSE,
   recorded |-> 0]

\* updateGameStats(..., won = true, ...): one more game, one more game won,
\* one more high score, and setData with a new object.
updateGameStatsWon(c) ==
  [c EXCEPT !.totalGames = c.totalGames + 1,
            !.gamesWon = c.gamesWon + 1,
            !.highScores = c.highScores + 1,
            !.recorded = c.recorded + 1]

\* The completion effect, run after a render in which one of its
\* dependencies (isGameCompleted, isModalOpen, gameState, updateGameStats)
\* changed.  updateGameStats changes `data`, and with it updateGameStats
\* itself, which is a dependency: the effect is due again after the next
\* render.  The timeout it sets is never cleared.
CompletionEffect(c) ==
  IF c.gameStatus = "completed" /\ ~c.isModalOpen
  THEN [updateGameStatsWon(c) EXCEPT !.openTimeouts = c.openTimeouts + 1,
                                     !.effectDue = TRUE]
  ELSE [c EXCEPT !.effectDue = FALSE]

GameBoardStatsInit ==
  /\ SessionInit
  /\ TimerInit
  /\ call = initialGameBoard

GameBoardStatsStep(c) ==
  /\ call.fn = "GameBoard"
  /\ call' = c
  /\ UNCHANGED <<sessionVars, timerVars>>

\* handleStartGame from the setup screen
statsStartGame ==
  /\ call.gameStatus = "setup"
  /\ ~call.effectDue
  /\ GameBoardStatsStep(CompletionEffect([call EXCEPT !.gameStatus = "playing",
                                                      !.recorded = 0]))

\* The last pair is matched: the render shows 'completed' and the effect runs.
statsCompleteGame ==
  /\ call.gameStatus = "playing"
  /\ ~call.effectDue
  /\ call.totalGames < MaxRecorded
  /\ GameBoardStatsStep(CompletionEffect([call EXCEPT !.gameStatus = "completed"]))

\* The render that follows a change of `data` or of isModalOpen: the effect
\* runs again.
statsRerender ==
  /\ call.effectDue
  /\ (call.gameStatus = "completed" /\ ~call.isModalOpen) => call.totalGames < MaxRecorded
  /\ GameBoardStatsStep(CompletionEffect(call))

\* A timeout set by the effect fires: setIsModalOpen(true)
statsOpenModalTimeout ==
  /\ call.openTimeouts > 0
  /\ GameBoardStatsStep([call EXCEPT !.openTimeouts = call.openTimeouts - 1,
                                     !.isModalOpen = TRUE,
                                     !.effectDue = call.effectDue \/ ~call.isModalOpen])

\* handleCloseModal
statsCloseModal ==
  /\ call.isModalOpen
  /\ ~call.effectDue
  /\ call.gameStatus = "completed" => call.totalGames < MaxRecorded
  /\ GameBoardStatsStep(CompletionEffect([call EXCEPT !.isModalOpen = FALSE]))

\* handlePlayAgain: the modal closes and a new game of the same kind starts.
statsPlayAgain ==
  /\ call.isModalOpen
  /\ ~call.effectDue
  /\ GameBoardStatsStep(CompletionEffect([call EXCEPT !.isModalOpen = FALSE,
                                                      !.gameStatus = "playing",
                                                      !.recorded = 0]))

\* handleChangeDifficulty: the modal closes and the session is reset.
statsChangeDifficulty ==
  /\ call.isModalOpen
  /\ ~call.effectDue
  /\ GameBoardStatsStep(CompletionEffect([call EXCEPT !.isModalOpen = FALSE,
                                                      !.gameStatus = "setup",
                                                      !.recorded = 0]))

GameBoardStatsNext ==
  \/ statsStartGame
  \/ statsCompleteGame
  \/ statsRerender
  \/ statsOpenModalTimeout
  \/ statsCloseModal
  \/ statsPlayAgain
  \/ statsChangeDifficulty

GameBoardStatsSpec == GameBoardStatsInit /\ [][GameBoardStatsNext]_vars

\* C39: while the session is 'completed' the game was recorded exactly
\* once, whatever renders, modal openings and closings happened since.
C39_CompletedGameRecordedOnce ==
  (call.fn = "GameBoard" /\ call.gameStatus = "completed") => call.recorded = 1

(***************************************************************************)
(* useLocalStorage: recording games and clearing                           *)
(***************************************************************************)

\* Most updateGameStats calls, and the largest time and number of moves of
\* a recorded game
MaxStatCalls == 2
MaxStatValue == 2

\* Infinity of the default best times and best moves: above every value
Infinity == MaxStatValue + 1

\* The counters of a fresh defaultGameStats object
pristineCounters == [totalGames |-> 0, gamesWon |-> 0, gamesLost |-> 0]

\* bestTimes and bestMoves of defaultGameStats as the module defines them
pristineBest == [d \in Difficulty |-> Infinity]

\* The objects of the hook after the component mounted with nothing stored.
\* safeJsonParse returned defaultLocalStorageData itself, so the merged data
\* has a new gameStats object ({ ...defaultGameStats, ...defaultGameStats }),
\* whose bestTimes and bestMoves are the objects of defaultGameStats, and
\* its highScores is the array of defaultLocalStorageData (an empty array is
\* truthy).  `data` names the objects it refers to.
initialStorage ==
  [fn |-> "useLocalStorage data",
   defaultGameStats |-> pristineCounters,
   loadedGameStats |-> pristineCounters,
   bestTimes |-> pristineBest,
   bestMoves |-> pristineBest,
   defaultHighScores |-> 0,
   newHighScores |-> 0,
   data |-> [gameStats |-> "loadedGameStats", highScores |-> "defaultHighScores"],
   calls |-> 0,
   lastOp |-> "load"]

\* The counters of the object data.gameStats refers to
StatsOf(c) ==
  IF c.data.gameStats = "defaultGameStats" THEN c.defaultGameStats ELSE c.loadedGameStats

\* The length of the array data.highScores refers to
HighScoresOf(c) ==
  IF c.data.highScores = "defaultHighScores" THEN c.defaultHighScores ELSE c.newHighScores

\* updateGameStats: newData is a shallow copy of data, so stats is the very
\* object data.gameStats refers to and the writes go to it, to its bestTimes
\* and bestMoves, and (push) to the array data.highScores refers to;
\* sort().slice() then gives newData a new array.
updateGameStats(c, difficulty, moves, time, won) ==
  LET stats == StatsOf(c)
      counted == [stats EXCEPT !.totalGames = stats.totalGames + 1,
                               !.gamesWon = IF won THEN stats.gamesWon + 1 ELSE stats.gamesWon,
                               !.gamesLost = IF won THEN stats.gamesLost ELSE stats.gamesLost + 1]
      written == IF c.data.gameStats = "defaultGameStats"
                 THEN [c EXCEPT !.defaultGameStats = counted]
                 ELSE [c EXCEPT !.loadedGameStats = counted]
      pushed == HighScoresOf(c) + 1
      pushedTo == IF c.data.highScores = "defaultHighScores"
                  THEN [written EXCEPT !.defaultHighScores = pushed]
                  ELSE [written EXCEPT !.newHighScores = pushed]
  IN  IF won
      THEN [pushedTo EXCEPT
              !.bestTimes[difficulty] = Min(time, c.bestTimes[difficulty]),
              !.bestMoves[difficulty] = Min(moves, c.bestMoves[difficulty]),
              !.newHighScores = pushed,
              !.data.highScores = "newHighScores",
              !.calls = c.calls + 1,
              !.lastOp = "updateGameStats"]
      ELSE [written EXCEPT !.calls = c.calls + 1, !.lastOp = "updateGameStats"]

\* clearStats: { ...data, gameStats: defaultGameStats, highScores: [] }
clearStats(c) ==
  [c EXCEPT !.data = [gameStats |-> "defaultGameStats", highScores |-> "newHighScores"],
            !.newHighScores = 0,
            !.lastOp = "clearStats"]

\* clearAllData: saveData(defaultLocalStorageData)
clearAllData(c) ==
  [c EXCEPT !.data = [gameStats |-> "defaultGameStats", highScores |-> "defaultHighScores"],
            !.lastOp = "clearAllData"]

StorageInit ==
  /\ SessionInit
  /\ TimerInit
  /\ call = initialStorage

StorageStep(c) ==
  /\ call.fn = "useLocalStorage data"
  /\ call' = c
  /\ UNCHANGED <<sessionVars, timerVars>>

callUpdateGameStats ==
  /\ call.calls < MaxStatCalls
  /\ \E difficulty \in Difficulty, moves \in 1..MaxStatValue, time \in 1..MaxStatValue,
        won \in BOOLEAN :
       StorageStep(updateGameStats(call, difficulty, moves, time, won))

callClearStats == StorageStep(clearStats(call))

callClearAllData == StorageStep(clearAllData(call))

StorageNext ==
  \/ callUpdateGameStats
  \/ callClearStats
  \/ callClearAllData

StorageSpec == StorageInit /\ [][StorageNext]_vars

\* C40: after clearStats or clearAllData, whatever games were recorded
\* before, the statistics are the pristine defaults: no games, no games
\* won, every best time and best number of moves unset, no high scores.
C40_ClearRestoresDefaults ==
  (call.fn = "useLocalStorage data" /\ call.lastOp \in {"clearStats", "clearAllData"}) =>
    /\ StatsOf(call) = pristineCounters
    /\ call.bestTimes = pristineBest
    /\ call.bestMoves = pristineBest
    /\ HighScoresOf(call) = 0

====
